---------------------------- MODULE Spec2Model ----------------------------
(***************************************************************************)
(* A model of agetools (IDerr/agetools): the LZSS codec (pkg/lzss), the    *)
(* BIN script disassembler and assembler (pkg/bin), the AGF image codec    *)
(* (pkg/agf) and the ALF archive engine (pkg/alf).                         *)
(*                                                                         *)
(* Every subsystem has its own specification (SpecLzss, SpecStream, ...)   *)
(* over the shared variables; a specification leaves the variables of the  *)
(* other subsystems at their idle values.                                  *)
(***************************************************************************)
EXTENDS Integers, Sequences, FiniteSets, TLC

VARIABLES
    \* lzss: one Compress call followed by Decompress of its result
    lzSrc,      \* the input of Compress
    lzPc,       \* "compress", "decompress", "done" ("idle" in other specifications)
    cst,        \* the locals of the running Compress
    lzOut,      \* the bytes Compress returned
    dst,        \* the locals of the running Decompress
    lzBack,     \* the bytes Decompress returned
    \* lzss: Decompress of a byte stream and of a prefix of it
    strm,       \* the stream
    cut,        \* the length of the prefix
    strmPc,     \* "ready", "done"
    outFull,    \* Decompress(strm)
    outCut,     \* Decompress(the prefix)
    \* lzss: concurrent Compress calls
    calls,      \* call id -> [src, pc, loc, out]: a call's input, position, locals, result
    scratch,    \* allocation id -> the textBuf, lson, rson, dad arrays of that allocation
    \* bin: Disassemble of a file, ToText of the script, Assemble of the text
    binFile,    \* the bytes of the file
    binPc,      \* "file", "script", "text", "assembled"
    script,     \* the Script Disassemble returned
    binText,    \* the text ToText returned
    asm,        \* what Assemble returned: err, fault, Data, Header and the parser's layout
    \* bin: Assemble of a hand-written text, one call of Assemble's three at a time
    asmSource,  \* the lines of the text after its header
    asmVersion, \* the version argument of Assemble
    asmPc,      \* "source", "header", "instructions", "built", "failed"
    asmParser,  \* the parser after the last call
    asmResult,  \* what Assemble returned: err, fault, Data, Header and the parser's layout
    \* agf: Unpack of a reference, WriteBMP, PackToBytes, Unpack of the result
    agfRef,     \* the bytes of the reference AGF file
    agfPc,      \* "ref", "unpacked", "bmp", "packed", "repacked"
    unpacked,   \* the UnpackResult of the reference
    bmpFile,    \* the bytes WriteBMP wrote
    packedAgf,  \* what PackToBytes returned: err, bytes
    repacked,   \* the UnpackResult of the packed bytes
    \* alf: AddArchive, Open and Extract on an index and its containers
    job,        \* the index, its containers, the arguments of AddArchive, the filter
    alfPc,      \* "index", "added", "opened", "rejected", "extracting", "returned", "refused"
    indexFile,  \* the bytes of the index file to open
    alfFiles,   \* the container files next to the index: name -> bytes
    added,      \* the error AddArchive returned, "" for none
    archive,    \* what Open left in the extractor: err, Header, Sources, Entries
    workers,    \* the goroutines of Extract: archive index -> pc, files, k, err
    errChan,    \* the errors in the channel, oldest first
    reported,   \* the archive indexes of the goroutines in the order they sent
    wg,         \* the counter of the WaitGroup
    outFiles,   \* the files of the output directory: path -> bytes
    outDirs,    \* the directories of the output directory
    wrote,      \* output path -> the goroutines that wrote it
    readBy,     \* handle of a container -> the goroutines that read from it
    extractErr, \* the error Extract returned, "" for none
    \* alf: LoadOriginal and Pack of an index, its containers and a directory of files
    pkJob,      \* the index, its containers, the files of the input directory
    pkPc,       \* "index", "loaded", "rejected", "packing", "returned"
    pkOriginal, \* what LoadOriginal left in the packer: err, Header, Sources, Entries
    pkFiles,    \* filesByArchive: archive index -> the packedFiles, sorted
    pkArc,      \* the archive index of the loop over the sources
    pkNext,     \* the next file of the container being written, 0 before it is created
    pkOffset,   \* the offset of the next file in the container being written
    pkEntries,  \* newEntries
    pkOut,      \* the container files of the output directory: name -> bytes
    pkIndex,    \* the index file of the output directory, <<>> before it is written
    pkErr,      \* the error Pack returned, "" for none, "panic" for a run-time panic
    \* agf: the palette lookups of one encodeColorMapWithAlpha call
    palList,          \* the palette of the reference
    palInputs,        \* the colours of the pixels, in the order of the loop
    additionalPalMap, \* the cache: <<blue, green, red>> -> index
    palIndexes        \* the index findNearestPalette returned for each pixel so far

lzssVars   == <<lzSrc, lzPc, cst, lzOut, dst, lzBack>>
streamVars == <<strm, cut, strmPc, outFull, outCut>>
callVars   == <<calls, scratch>>
binVars    == <<binFile, binPc, script, binText, asm>>
asmVars    == <<asmSource, asmVersion, asmPc, asmParser, asmResult>>
agfVars    == <<agfRef, agfPc, unpacked, bmpFile, packedAgf, repacked>>
alfVars    == <<job, alfPc, indexFile, alfFiles, added, archive, workers, errChan, reported,
                wg, outFiles, outDirs, wrote, readBy, extractErr>>
packVars   == <<pkJob, pkPc, pkOriginal, pkFiles, pkArc, pkNext, pkOffset, pkEntries, pkOut,
                pkIndex, pkErr>>
palVars    == <<palList, palInputs, additionalPalMap, palIndexes>>
vars       == <<lzssVars, streamVars, callVars, binVars, asmVars, agfVars, alfVars, packVars,
                palVars>>
\* The variables each specification leaves alone.
notLzss    == <<streamVars, callVars, binVars, agfVars, alfVars, asmVars, packVars,
                palVars>>
notStream  == <<lzssVars, callVars, binVars, agfVars, alfVars, asmVars, packVars,
                palVars>>
notCalls   == <<lzssVars, streamVars, binVars, agfVars, alfVars, asmVars, packVars,
                palVars>>
notBin     == <<lzssVars, streamVars, callVars, agfVars, alfVars, asmVars, packVars,
                palVars>>
notAgf     == <<lzssVars, streamVars, callVars, binVars, alfVars, asmVars, packVars,
                palVars>>
notAlf     == <<lzssVars, streamVars, callVars, binVars, agfVars, asmVars, packVars,
                palVars>>
notAsm     == <<lzssVars, streamVars, callVars, binVars, agfVars, alfVars, packVars,
                palVars>>
notPal     == <<lzssVars, streamVars, callVars, binVars, asmVars, agfVars, alfVars, packVars>>
notPack    == <<lzssVars, streamVars, callVars, binVars, asmVars, agfVars, alfVars,
                palVars>>

(***************************************************************************)
(* Integer helpers: Go's fixed-width arithmetic on naturals.               *)
(***************************************************************************)
RECURSIVE BitAnd(_, _)
BitAnd(a, b) ==
    IF a = 0 \/ b = 0 THEN 0
    ELSE 2 * BitAnd(a \div 2, b \div 2) + (IF a % 2 = 1 /\ b % 2 = 1 THEN 1 ELSE 0)

RECURSIVE BitOr(_, _)
BitOr(a, b) ==
    IF a = 0 THEN b
    ELSE IF b = 0 THEN a
    ELSE 2 * BitOr(a \div 2, b \div 2) + (IF a % 2 = 1 \/ b % 2 = 1 THEN 1 ELSE 0)

ToByte(x) == x % 256

(***************************************************************************)
(* pkg/lzss: constants.                                                    *)
(***************************************************************************)
N == 4096
F == 18
Threshold == 2
NMask == N - 1

(***************************************************************************)
(* The match finder.  A tree state t is a record                           *)
(*   [textBuf, lson, rson, dad, matchPos, matchLen]                        *)
(* whose arrays have the lengths Compress allocates: textBuf N+F-1,        *)
(* lson N+1, rson N+257, dad N+1 (indices from 0).  Reading an index       *)
(* outside an array is an evaluation error, as it is a panic in Go; Put    *)
(* reads the cell before writing it so that a write outside fails too.     *)
(***************************************************************************)
Put(f, i, v) == IF f[i] = v THEN f ELSE [f EXCEPT ![i] = v]

\* The comparison loop of insertNode (lines 160-166): the first i in 1..F-1
\* with key[i] # textBuf[p+i], or F when there is none.
RECURSIVE MatchRun(_, _, _, _)
MatchRun(textBuf, r, p, i) ==
    IF i >= F THEN i
    ELSE IF textBuf[r + i] # textBuf[p + i] THEN i
    ELSE MatchRun(textBuf, r, p, i + 1)

\* Lines 177-188 of insertNode: node r takes the place of node p.
ReplaceNode(r, p, t) ==
    LET dad1  == Put(t.dad, r, t.dad[p])
        lson1 == Put(t.lson, r, t.lson[p])
        rson1 == Put(t.rson, r, t.rson[p])
        dad2  == Put(dad1, lson1[p], r)
        dad3  == Put(dad2, rson1[p], r)
        right == rson1[dad3[p]] = p
        rson2 == IF right THEN Put(rson1, dad3[p], r) ELSE rson1
        lson2 == IF right THEN lson1 ELSE Put(lson1, dad3[p], r)
        dad4  == Put(dad3, p, N)
    IN [t EXCEPT !.dad = dad4, !.lson = lson2, !.rson = rson2]

\* The walk of insertNode (lines 141-175) from node p with the last
\* comparison result cmp.
RECURSIVE InsertWalk(_, _, _, _)
InsertWalk(r, t, p, cmp) ==
    LET Longer(child, i, c, t1) ==
          IF i > t.matchLen /\ i >= F THEN ReplaceNode(r, child, t1)
          ELSE InsertWalk(r, t1, child, c)
        Compared(child, i) ==
          Longer(child, i,
                 IF i < F THEN t.textBuf[r + i] - t.textBuf[child + i]
                 ELSE t.textBuf[r + F - 1] - t.textBuf[child + F - 1],
                 IF i > t.matchLen THEN [t EXCEPT !.matchPos = child, !.matchLen = i] ELSE t)
        Walk(child) ==
          IF child = N
          THEN IF cmp >= 0
               THEN [t EXCEPT !.rson = Put(t.rson, p, r), !.dad = Put(t.dad, r, p)]
               ELSE [t EXCEPT !.lson = Put(t.lson, p, r), !.dad = Put(t.dad, r, p)]
          ELSE Compared(child, MatchRun(t.textBuf, r, child, 1))
    IN Walk(IF cmp >= 0 THEN t.rson[p] ELSE t.lson[p])

\* insertNode (lines 133-189).
insertNode(r, t) ==
    LET p  == N + 1 + t.textBuf[r]
        t0 == [t EXCEPT !.rson = Put(t.rson, r, N),
                        !.lson = Put(t.lson, r, N),
                        !.matchLen = 0]
    IN InsertWalk(r, t0, p, 1)

\* The descent of deleteNode (lines 205-207).
RECURSIVE RightMost(_, _)
RightMost(rson, q) == IF rson[q] # N THEN RightMost(rson, rson[q]) ELSE q

\* deleteNode (lines 192-224).
deleteNode(p, t) ==
    IF t.dad[p] = N THEN t
    ELSE
      LET sub ==
            IF t.rson[p] = N THEN [q |-> t.lson[p], t |-> t]
            ELSE IF t.lson[p] = N THEN [q |-> t.rson[p], t |-> t]
            ELSE
              LET q0 == t.lson[p]
              IN IF t.rson[q0] # N
                 THEN LET q     == RightMost(t.rson, q0)
                          rson1 == Put(t.rson, t.dad[q], t.lson[q])
                          dad1  == Put(t.dad, t.lson[q], t.dad[q])
                          lson1 == Put(t.lson, q, t.lson[p])
                          dad2  == Put(dad1, lson1[p], q)
                          rson2 == Put(rson1, q, rson1[p])
                          dad3  == Put(dad2, rson2[p], q)
                      IN [q |-> q,
                          t |-> [t EXCEPT !.rson = rson2, !.lson = lson1, !.dad = dad3]]
                 ELSE LET rson1 == Put(t.rson, q0, t.rson[p])
                          dad1  == Put(t.dad, rson1[p], q0)
                      IN [q |-> q0, t |-> [t EXCEPT !.rson = rson1, !.dad = dad1]]
          q     == sub.q
          u     == sub.t
          dad1  == Put(u.dad, q, u.dad[p])
          right == u.rson[dad1[p]] = p
          rson1 == IF right THEN Put(u.rson, dad1[p], q) ELSE u.rson
          lson1 == IF right THEN u.lson ELSE Put(u.lson, dad1[p], q)
          dad2  == Put(dad1, p, N)
      IN [u EXCEPT !.dad = dad2, !.rson = rson1, !.lson = lson1]


(***************************************************************************)
(* Compress (lines 13-130).  A compressor state c extends the tree state   *)
(* with the remaining locals of Compress:                                  *)
(*   codeBuf (17 bytes), codeBufPtr, mask, s, r, srcPos, length, result.   *)
(***************************************************************************)
Min(a, b) == IF a < b THEN a ELSE b

\* Lines 57-61: insertNode(r-1) ... insertNode(r-F), then insertNode(r).
RECURSIVE InitialInserts(_, _)
InitialInserts(i, c) ==
    IF i > F THEN insertNode(c.r, c)
    ELSE InitialInserts(i + 1, insertNode(c.r - i, c))

\* Lines 18-61 for a non-empty src: the state on entry to the main loop.
CompressStart(src) ==
    LET length == Min(F, Len(src))
        r      == N - F
    IN InitialInserts(1,
         [textBuf    |-> [i \in 0..(N + F - 2) |->
                            IF i >= r /\ i < r + length THEN src[i - r + 1] ELSE 0],
          lson       |-> [i \in 0..N |-> 0],
          rson       |-> [i \in 0..(N + 256) |-> IF i >= N + 1 THEN N ELSE 0],
          dad        |-> [i \in 0..N |-> IF i < N THEN N ELSE 0],
          matchPos   |-> 0,
          matchLen   |-> 0,
          codeBuf    |-> [i \in 0..16 |-> 0],
          codeBufPtr |-> 1,
          mask       |-> 1,
          s          |-> 0,
          r          |-> r,
          srcPos     |-> length,
          length     |-> length,
          result     |-> <<>>])

\* Lines 85-87 and 124-126: the code buffer appended to the result.
FlushCodeBuf(result, codeBuf, codeBufPtr) ==
    result \o [i \in 1..codeBufPtr |-> codeBuf[i - 1]]

\* A mutant of EmitCode: the length nibble holds matchLen - Threshold.
EmitCodeLongNibble(c, matchLen) ==
    IF matchLen <= Threshold
    THEN [c EXCEPT !.matchLen = 1,
                   !.codeBuf = [c.codeBuf EXCEPT ![0] = BitOr(c.codeBuf[0], c.mask),
                                                 ![c.codeBufPtr] = c.textBuf[c.r]],
                   !.codeBufPtr = c.codeBufPtr + 1]
    ELSE [c EXCEPT !.matchLen = matchLen,
                   !.codeBuf = [c.codeBuf EXCEPT
                       ![c.codeBufPtr] = ToByte(BitAnd(c.matchPos, 255)),
                       ![c.codeBufPtr + 1] =
                           ToByte(BitOr(BitAnd(c.matchPos \div 16, 240),
                                        BitAnd(matchLen - Threshold, 15)))],
                   !.codeBufPtr = c.codeBufPtr + 2]

\* Lines 68-80: the code for the current match, a literal or a pair.
EmitCode(c, matchLen) ==
    IF matchLen <= Threshold
    THEN [c EXCEPT !.matchLen = 1,
                   !.codeBuf = [c.codeBuf EXCEPT ![0] = BitOr(c.codeBuf[0], c.mask),
                                                 ![c.codeBufPtr] = c.textBuf[c.r]],
                   !.codeBufPtr = c.codeBufPtr + 1]
    ELSE [c EXCEPT !.matchLen = matchLen,
                   !.codeBuf = [c.codeBuf EXCEPT
                       ![c.codeBufPtr] = ToByte(BitAnd(c.matchPos, 255)),
                       ![c.codeBufPtr + 1] =
                           ToByte(BitOr(BitAnd(c.matchPos \div 16, 240),
                                        BitAnd(matchLen - (Threshold + 1), 15)))],
                   !.codeBufPtr = c.codeBufPtr + 2]

\* Lines 82-91: the mask shifted, the code buffer flushed after 8 codes.
ShiftMask(c) ==
    LET mask == (c.mask * 2) % 256
    IN IF mask = 0
       THEN [c EXCEPT !.result = FlushCodeBuf(c.result, c.codeBuf, c.codeBufPtr),
                      !.codeBuf = [c.codeBuf EXCEPT ![0] = 0],
                      !.codeBufPtr = 1,
                      !.mask = 1]
       ELSE [c EXCEPT !.mask = mask]

\* Lines 110-119: the input is exhausted, the look-ahead shrinks.
RECURSIVE DrainLoop(_, _, _)
DrainLoop(i, last, c) ==
    IF i >= last THEN c
    ELSE LET c1 == deleteNode(c.s, c)
             c2 == [c1 EXCEPT !.s = (c.s + 1) % N,
                              !.r = (c.r + 1) % N,
                              !.length = c.length - 1]
         IN DrainLoop(i + 1, last,
                      IF c2.length > 0 THEN insertNode(c2.r, c2) ELSE c2)

\* Lines 96-108: one input byte replaces the oldest byte of the ring.
RECURSIVE RefillLoop(_, _, _, _)
RefillLoop(src, i, last, c) ==
    IF i < last /\ c.srcPos < Len(src)
    THEN LET b  == src[c.srcPos + 1]
             c1 == deleteNode(c.s, c)
             tb == Put(c1.textBuf, c.s, b)
             c2 == [c1 EXCEPT !.textBuf = IF c.s < F - 1 THEN Put(tb, c.s + N, b) ELSE tb,
                              !.srcPos = c.srcPos + 1,
                              !.s = (c.s + 1) % N,
                              !.r = (c.r + 1) % N]
         IN RefillLoop(src, i + 1, last, insertNode(c2.r, c2))
    ELSE DrainLoop(i, last, c)

\* A mutant of CompressIter: matchLen is not cut to the look-ahead left.
CompressIterUnclamped(src, c) ==
    LET c1 == ShiftMask(EmitCode(c, c.matchLen))
    IN RefillLoop(src, 0, c1.matchLen, c1)

\* One iteration of the main loop (lines 63-120).
CompressIter(src, c) ==
    LET matchLen == IF c.matchLen > c.length THEN c.length ELSE c.matchLen
        c1       == ShiftMask(EmitCode(c, matchLen))
    IN RefillLoop(src, 0, c1.matchLen, c1)

\* Lines 122-129.
CompressFinish(c) ==
    IF c.codeBufPtr > 1 THEN FlushCodeBuf(c.result, c.codeBuf, c.codeBufPtr)
    ELSE c.result

\* Up to k iterations of the main loop.
RECURSIVE CompressIters(_, _, _)
CompressIters(src, c, k) ==
    IF k > 0 /\ c.length > 0 THEN CompressIters(src, CompressIter(src, c), k - 1) ELSE c

\* The main loop (line 63), taken 32 iterations at a time.
RECURSIVE CompressLoop(_, _)
CompressLoop(src, c) ==
    IF c.length > 0 THEN CompressLoop(src, CompressIters(src, c, 32)) ELSE CompressFinish(c)

\* Compress as a function of its input.
Compress(src) == IF Len(src) = 0 THEN <<>> ELSE CompressLoop(src, CompressStart(src))

(***************************************************************************)
(* Decompress (lines 227-284).  A decoder state d is the record of its     *)
(* locals [textBuf, r, flags, srcPos, result, brk]; brk is set by a break. *)
(***************************************************************************)
DecompressStart ==
    [textBuf |-> [i \in 0..(N + F - 2) |-> 0],
     r       |-> N - F,
     flags   |-> 0,
     srcPos  |-> 0,
     result  |-> <<>>,
     brk     |-> FALSE]

\* Lines 274-279: the copy of j+1 bytes from ring position i.
RECURSIVE CopyLoop(_, _, _, _)
CopyLoop(i, j, k, d) ==
    IF k > j THEN d
    ELSE LET b == d.textBuf[(i + k) % N]
         IN CopyLoop(i, j, k + 1,
                     [d EXCEPT !.textBuf = Put(d.textBuf, d.r, b),
                               !.r = (d.r + 1) % N,
                               !.result = Append(d.result, b)])

\* A mutant of DecompressIter: a back-reference cut after its first byte
\* is not dropped, its first byte is output as a literal.
DecompressIterCutPair(src, d) ==
    LET flags1 == d.flags \div 2
        refill == BitAnd(flags1, 256) = 0
    IN IF refill /\ d.srcPos >= Len(src) THEN [d EXCEPT !.flags = flags1, !.brk = TRUE]
       ELSE
         LET flags  == IF refill THEN BitOr(src[d.srcPos + 1], 65280) ELSE flags1
             srcPos == IF refill THEN d.srcPos + 1 ELSE d.srcPos
             d1     == [d EXCEPT !.flags = flags, !.srcPos = srcPos]
         IN IF srcPos >= Len(src) THEN [d1 EXCEPT !.brk = TRUE]
            ELSE IF BitAnd(flags, 1) # 0 \/ srcPos + 1 >= Len(src)
            THEN LET b == src[srcPos + 1]
                 IN [d1 EXCEPT !.srcPos = srcPos + 1,
                               !.textBuf = Put(d1.textBuf, d1.r, b),
                               !.r = (d1.r + 1) % N,
                               !.result = Append(d1.result, b)]
            ELSE LET b0 == src[srcPos + 1]
                     b1 == src[srcPos + 2]
                     i  == BitOr(b0, BitAnd(b1, 240) * 16)
                     j  == BitAnd(b1, 15) + Threshold
                 IN CopyLoop(i, j, 0, [d1 EXCEPT !.srcPos = srcPos + 2])

\* One iteration of the loop of Decompress (lines 240-281).
DecompressIter(src, d) ==
    LET flags1 == d.flags \div 2
        refill == BitAnd(flags1, 256) = 0
    IN IF refill /\ d.srcPos >= Len(src) THEN [d EXCEPT !.flags = flags1, !.brk = TRUE]
       ELSE
         LET flags  == IF refill THEN BitOr(src[d.srcPos + 1], 65280) ELSE flags1
             srcPos == IF refill THEN d.srcPos + 1 ELSE d.srcPos
             d1     == [d EXCEPT !.flags = flags, !.srcPos = srcPos]
         IN IF BitAnd(flags, 1) # 0
            THEN IF srcPos >= Len(src) THEN [d1 EXCEPT !.brk = TRUE]
                 ELSE LET b == src[srcPos + 1]
                      IN [d1 EXCEPT !.srcPos = srcPos + 1,
                                    !.textBuf = Put(d1.textBuf, d1.r, b),
                                    !.r = (d1.r + 1) % N,
                                    !.result = Append(d1.result, b)]
            ELSE IF srcPos + 1 >= Len(src) THEN [d1 EXCEPT !.brk = TRUE]
                 ELSE LET b0 == src[srcPos + 1]
                          b1 == src[srcPos + 2]
                          i  == BitOr(b0, BitAnd(b1, 240) * 16)
                          j  == BitAnd(b1, 15) + Threshold
                      IN CopyLoop(i, j, 0, [d1 EXCEPT !.srcPos = srcPos + 2])

DecompressRunning(src, d) == ~d.brk /\ d.srcPos < Len(src)

\* Up to k iterations of the loop of Decompress.
RECURSIVE DecompressIters(_, _, _)
DecompressIters(src, d, k) ==
    IF k > 0 /\ DecompressRunning(src, d)
    THEN DecompressIters(src, DecompressIter(src, d), k - 1)
    ELSE d

\* The loop of Decompress (line 240), taken 32 iterations at a time.
RECURSIVE DecompressLoop(_, _)
DecompressLoop(src, d) ==
    IF DecompressRunning(src, d) THEN DecompressLoop(src, DecompressIters(src, d, 32))
    ELSE d.result

\* Decompress as a function of its input.
Decompress(src) == IF Len(src) = 0 THEN <<>> ELSE DecompressLoop(src, DecompressStart)


(***************************************************************************)
(* Inputs.                                                                 *)
(***************************************************************************)
SeqsUpTo(S, n) == UNION {[1..k -> S] : k \in 0..n}

IsPrefix(a, b) == Len(a) <= Len(b) /\ \A i \in 1..Len(a) : a[i] = b[i]

\* Short inputs: every sequence of at most MaxShort bytes over ShortBytes
\* (the zero byte matches the zero-initialised ring).
MaxShort == 4
ShortBytes == {0, 65, 66}

\* Ten copies of a byte, and inputs around the look-ahead length F.
RunInputs == {[i \in 1..n |-> b] : n \in {10, F - 1, F, F + 1, 2 * F + 3}, b \in {0, 65}}

\* Long inputs: LongExtra bytes more than the ring and the look-ahead hold, so
\* that s and r wrap and the oldest bytes of the ring are overwritten.
LongExtra == 30
LongInput(k) ==
    [i \in 1..(N + F + LongExtra) |-> ((i * i * k + (i \div 7) * 3 + (i \div 64)) % 11) % 3]
LongInputs == {LongInput(1)}

\* Nine different bytes, a run longer than the look-ahead and a short run:
\* more codes than one flag byte takes, literals, long and short pairs.
MixedInput ==
    <<1, 2, 3, 4, 5, 6, 7, 8, 9>> \o [i \in 1..(F + 4) |-> 65] \o <<66, 66, 66, 66, 66>>

LzssInputs == SeqsUpTo(ShortBytes, MaxShort) \cup RunInputs \cup LongInputs \cup {MixedInput}

Idle == "idle"
IdleLzss   == lzSrc = <<>> /\ lzPc = Idle /\ cst = Idle /\ lzOut = <<>> /\ dst = Idle
              /\ lzBack = <<>>
IdleStream == strm = <<>> /\ cut = 0 /\ strmPc = Idle /\ outFull = <<>> /\ outCut = <<>>
IdleCalls  == calls = <<>> /\ scratch = <<>>
IdleBin    == binFile = <<>> /\ binPc = Idle /\ script = Idle /\ binText = <<>> /\ asm = Idle
IdlePack ==
    /\ pkJob = Idle /\ pkPc = Idle /\ pkOriginal = Idle /\ pkFiles = <<>> /\ pkArc = 0
    /\ pkNext = 0 /\ pkOffset = 0 /\ pkEntries = <<>> /\ pkOut = <<>> /\ pkIndex = <<>>
    /\ pkErr = Idle
IdlePal ==
    palList = <<>> /\ palInputs = <<>> /\ additionalPalMap = <<>> /\ palIndexes = <<>>
IdleAsm ==
    asmSource = <<>> /\ asmVersion = 0 /\ asmPc = Idle /\ asmParser = Idle /\ asmResult = Idle
IdleAlf ==
    /\ job = Idle /\ alfPc = Idle /\ indexFile = <<>> /\ alfFiles = <<>> /\ added = Idle
    /\ archive = Idle /\ workers = <<>> /\ errChan = <<>> /\ reported = <<>> /\ wg = 0
    /\ outFiles = <<>> /\ outDirs = {} /\ wrote = <<>> /\ readBy = <<>> /\ extractErr = Idle
IdleAgf ==
    /\ agfRef = <<>> /\ agfPc = Idle /\ unpacked = Idle /\ bmpFile = <<>>
    /\ packedAgf = Idle /\ repacked = Idle

(***************************************************************************)
(* SpecLzss: Compress(src) run one loop iteration at a time, then          *)
(* Decompress of its result run one loop iteration at a time.              *)
(***************************************************************************)
InitLzss ==
    /\ lzSrc \in LzssInputs
    /\ lzPc = "compress"
    /\ cst = IF Len(lzSrc) = 0 THEN Idle ELSE CompressStart(lzSrc)
    /\ lzOut = <<>>
    /\ dst = Idle
    /\ lzBack = <<>>
    /\ IdleStream /\ IdleCalls /\ IdleBin /\ IdleAgf /\ IdleAlf /\ IdleAsm /\ IdlePack
    /\ IdlePal

CompressStep ==
    /\ lzPc = "compress"
    /\ Len(lzSrc) > 0
    /\ cst.length > 0
    /\ cst' = CompressIter(lzSrc, cst)
    /\ UNCHANGED <<lzSrc, lzPc, lzOut, dst, lzBack, notLzss>>

CompressReturn ==
    /\ lzPc = "compress"
    /\ IF Len(lzSrc) = 0 THEN TRUE ELSE cst.length = 0
    /\ lzOut' = IF Len(lzSrc) = 0 THEN <<>> ELSE CompressFinish(cst)
    /\ lzPc' = "decompress"
    /\ cst' = Idle
    /\ dst' = DecompressStart
    /\ UNCHANGED <<lzSrc, lzBack, notLzss>>

DecompressStep ==
    /\ lzPc = "decompress"
    /\ Len(lzOut) > 0
    /\ DecompressRunning(lzOut, dst)
    /\ dst' = DecompressIter(lzOut, dst)
    /\ UNCHANGED <<lzSrc, lzPc, cst, lzOut, lzBack, notLzss>>

DecompressReturn ==
    /\ lzPc = "decompress"
    /\ IF Len(lzOut) = 0 THEN TRUE ELSE ~DecompressRunning(lzOut, dst)
    /\ lzBack' = IF Len(lzOut) = 0 THEN <<>> ELSE dst.result
    /\ lzPc' = "done"
    /\ dst' = Idle
    /\ UNCHANGED <<lzSrc, cst, lzOut, notLzss>>

NextLzss == CompressStep \/ CompressReturn \/ DecompressStep \/ DecompressReturn

SpecLzss == InitLzss /\ [][NextLzss]_vars

\* C1: Decompress(Compress(x)) = x for every input x.
RoundTripLzss == lzPc = "done" => lzBack = lzSrc

\* C1 witness: an input longer than two maximal matches has been compressed
\* to fewer bytes, with back references, and decompressed back.
RoundTripLzssWitness ==
    lzPc = "done" /\ Len(lzSrc) > 2 * F /\ Len(lzOut) < Len(lzSrc) /\ lzBack = lzSrc

\* The codes of an output stream: after each flag byte up to 8 codes, the
\* bits of the flag byte taken from the least significant one; a set bit is
\* a literal byte, a clear bit a pair of position and length.
ParseCode(out, p) ==
    IF p.left = 0
    THEN [p EXCEPT !.pos = p.pos + 1, !.flags = out[p.pos], !.left = 8]
    ELSE IF p.flags % 2 = 1
    THEN [pos |-> p.pos + 1, flags |-> p.flags \div 2, left |-> p.left - 1,
          codes |-> Append(p.codes, [literal |-> TRUE, value |-> out[p.pos], length |-> 1]),
          covered |-> p.covered + 1]
    ELSE IF p.pos + 1 > Len(out)
    THEN [p EXCEPT !.pos = p.pos + 2,
                   !.codes = Append(p.codes, [literal |-> FALSE, value |-> -1, length |-> 0])]
    ELSE [pos |-> p.pos + 2, flags |-> p.flags \div 2, left |-> p.left - 1,
          codes |-> Append(p.codes,
                           [literal |-> FALSE,
                            value |-> out[p.pos] + 256 * (out[p.pos + 1] \div 16),
                            length |-> (out[p.pos + 1] % 16) + Threshold + 1]),
          covered |-> p.covered + (out[p.pos + 1] % 16) + Threshold + 1]
RECURSIVE ParseCodes(_, _, _)
ParseCodes(out, p, k) ==
    IF k > 0 /\ p.pos <= Len(out) THEN ParseCodes(out, ParseCode(out, p), k - 1) ELSE p
RECURSIVE ParseLoop(_, _)
ParseLoop(out, p) ==
    IF p.pos <= Len(out) THEN ParseLoop(out, ParseCodes(out, p, 32)) ELSE p
ParsedStream(out) == ParseLoop(out, [pos |-> 1, flags |-> 0, left |-> 0, codes |-> <<>>, covered |-> 0])
CodesOf(out) == ParsedStream(out).codes

RECURSIVE Advances(_)
Advances(codes) == IF codes = <<>> THEN 0 ELSE codes[1].length + Advances(Tail(codes))

\* The bytes Compress has put out so far, and the input bytes it has coded.
Emitted(c) == CompressFinish(c)
Cursor(c) == c.srcPos - c.length

\* One iteration of the main loop puts out one code: the literal at the
\* cursor for a match of at most Threshold bytes, else the pair of the match.
StepEmits(c, d) ==
    LET matchLen == Min(c.matchLen, c.length)
        before   == CodesOf(Emitted(c))
        after    == CodesOf(Emitted(d))
    IN /\ Len(after) = Len(before) + 1
       /\ SubSeq(after, 1, Len(before)) = before
       /\ IF matchLen <= Threshold
          THEN /\ after[Len(after)] =
                    [literal |-> TRUE, value |-> lzSrc[Cursor(c) + 1], length |-> 1]
               /\ Cursor(d) = Cursor(c) + 1
          ELSE /\ after[Len(after)] =
                    [literal |-> FALSE, value |-> c.matchPos, length |-> matchLen]
               /\ Cursor(d) = Cursor(c) + matchLen
               /\ matchLen \in (Threshold + 1)..F
               /\ matchLen <= Len(lzSrc) - Cursor(c)

\* The codes put out so far cover the input up to the cursor.
CodesCoverInput ==
    /\ (lzPc = "compress" /\ Len(lzSrc) > 0) => ParsedStream(Emitted(cst)).covered = Cursor(cst)
    /\ lzPc \in {"decompress", "done"} => ParsedStream(lzOut).covered = Len(lzSrc)

\* Ten copies of a non-zero byte: flag byte 1, the byte, then pairs only.
TenCopies ==
    (lzPc \in {"decompress", "done"} /\ lzSrc = [i \in 1..10 |-> 65]) =>
        /\ lzOut[1] = 1
        /\ lzOut[2] = 65
        /\ LET codes == CodesOf(lzOut)
           IN /\ \A i \in 2..Len(codes) : ~codes[i].literal
              /\ Advances(Tail(codes)) = 9

\* C26: every iteration of Compress puts out one code, a literal (flag bit
\* 1, cursor + 1) for a match of at most 2 bytes and else a pair (flag bit 0,
\* cursor + match length) holding the match position and a length of 3..18
\* that is not more than the input left; the flag bits are taken from the
\* least significant one and a flag byte has at most 8 codes; the lengths
\* of the codes sum to the input length; ten copies of a non-zero byte
\* are coded as flag byte 1, the byte, and pairs for the other nine.
CompressStepsAsSpecified ==
    /\ [][CompressStep => StepEmits(cst, cst')]_vars
    /\ [](CodesCoverInput /\ TenCopies)

\* C26 witness: a stream with more than one flag byte, with literals and
\* with a pair of the greatest length, has been put out.
CompressStepsAsSpecifiedWitness ==
    /\ lzPc = "decompress"
    /\ LET codes == CodesOf(lzOut)
       IN /\ Len(codes) > 8
          /\ \E i \in 1..Len(codes) : codes[i].literal
          /\ \E i \in 1..Len(codes) : codes[i].length = F
          /\ \E i \in 1..Len(codes) : ~codes[i].literal /\ codes[i].length < F

\* C26 witness of the run of ten: the stream of ten copies of 65.
TenCopiesWitness ==
    lzPc = "decompress" /\ lzSrc = [i \in 1..10 |-> 65] /\ Len(lzOut) = 4


(***************************************************************************)
(* SpecStream: Decompress applied to a byte stream and to a prefix of it.  *)
(* The streams are all short sequences over StreamBytes, which holds flag  *)
(* bytes with literal and pair bits and the pair (238, 240): position      *)
(* 0xFEE, the initial r, length 3.                                         *)
(***************************************************************************)
MaxStream == 4
StreamBytes == {0, 1, 238, 240, 255}
Streams == SeqsUpTo(StreamBytes, MaxStream)

InitStream ==
    /\ strm \in Streams
    /\ cut \in 0..Len(strm)
    /\ strmPc = "ready"
    /\ outFull = <<>>
    /\ outCut = <<>>
    /\ IdleLzss /\ IdleCalls /\ IdleBin /\ IdleAgf /\ IdleAlf /\ IdleAsm /\ IdlePack
    /\ IdlePal

DecodeStream ==
    /\ strmPc = "ready"
    /\ outFull' = Decompress(strm)
    /\ outCut' = Decompress(SubSeq(strm, 1, cut))
    /\ strmPc' = "done"
    /\ UNCHANGED <<strm, cut, notStream>>

NextStream == DecodeStream

SpecStream == InitStream /\ [][NextStream]_vars

\* C7: Decompress of a prefix of a stream returns a prefix of Decompress of
\* the stream, and the empty input returns the empty output.  (A fault of
\* Decompress is an evaluation error of the model.)
PrefixDecode ==
    strmPc = "done" => /\ IsPrefix(outCut, outFull)
                       /\ (cut = 0 => outCut = <<>>)

\* C7 witness: a prefix that ends after the first byte of a pair has been
\* decoded to a non-empty proper prefix of the output of the whole stream.
PrefixDecodeWitness ==
    /\ strmPc = "done"
    /\ strm = <<1, 240, 238, 240>>
    /\ cut = 3
    /\ outCut = <<240>>
    /\ outFull = <<240, 240, 240, 240>>


(***************************************************************************)
(* SpecReentrant: Compress calls running concurrently, interleaved at the  *)
(* granularity of the statements before the main loop, one iteration of    *)
(* the main loop, and the return.  A call's arrays textBuf, lson, rson,    *)
(* dad live in the allocation ScratchOf(id); its other locals (matchPos,   *)
(* matchLen, codeBuf, ...) are in calls[id].loc.                           *)
(***************************************************************************)
CallIds == {1, 2}
CallInputs == {<<>>, <<65>>, <<65, 65>>, <<0, 65>>, <<65, 66, 65, 66, 65, 66, 65>>}

\* The arrays of a Compress call (lines 19-24).
Arrays(c) ==
    [textBuf |-> c.textBuf, lson |-> c.lson, rson |-> c.rson, dad |-> c.dad]
\* The other local variables of a Compress call (lines 26-37).
Locals(c) ==
    [matchPos |-> c.matchPos, matchLen |-> c.matchLen, codeBuf |-> c.codeBuf,
     codeBufPtr |-> c.codeBufPtr, mask |-> c.mask, s |-> c.s, r |-> c.r,
     srcPos |-> c.srcPos, length |-> c.length, result |-> c.result]
\* The record of a call's locals over the arrays of an allocation.
Joined(loc, arr) ==
    [textBuf |-> arr.textBuf, lson |-> arr.lson, rson |-> arr.rson, dad |-> arr.dad,
     matchPos |-> loc.matchPos, matchLen |-> loc.matchLen, codeBuf |-> loc.codeBuf,
     codeBufPtr |-> loc.codeBufPtr, mask |-> loc.mask, s |-> loc.s, r |-> loc.r,
     srcPos |-> loc.srcPos, length |-> loc.length, result |-> loc.result]

\* A mutant of ScratchOf: the arrays are package-level variables, one
\* allocation shared by every call (as in the C original).
ScratchShared(id) == 1

\* Lines 19-24: Compress allocates its arrays with make on every call.
ScratchOf(id) == id

InitReentrant ==
    /\ calls \in [CallIds -> {[src |-> x, pc |-> "start", loc |-> Idle, out |-> <<>>,
                               alone |-> Compress(x)] : x \in CallInputs}]
    /\ scratch = [a \in CallIds |-> Idle]
    /\ IdleLzss /\ IdleStream /\ IdleBin /\ IdleAgf /\ IdleAlf /\ IdleAsm /\ IdlePack
    /\ IdlePal

\* Lines 13-61 of a call: the empty input returns at once.
CallBegin(id) ==
    /\ calls[id].pc = "start"
    /\ IF Len(calls[id].src) = 0
       THEN /\ calls' = [calls EXCEPT ![id].pc = "done"]
            /\ UNCHANGED scratch
       ELSE LET c == CompressStart(calls[id].src)
            IN /\ calls' = [calls EXCEPT ![id].pc = "loop", ![id].loc = Locals(c)]
               /\ scratch' = [scratch EXCEPT ![ScratchOf(id)] = Arrays(c)]
    /\ UNCHANGED notCalls

\* One iteration of the main loop of a call (lines 63-120).
CallIter(id) ==
    /\ calls[id].pc = "loop"
    /\ calls[id].loc.length > 0
    /\ \E j \in {Joined(calls[id].loc, scratch[ScratchOf(id)])} :
         \E c \in {CompressIter(calls[id].src, j)} :
            /\ calls' = [calls EXCEPT ![id].loc = Locals(c)]
            /\ scratch' = [scratch EXCEPT ![ScratchOf(id)] = Arrays(c)]
    /\ UNCHANGED notCalls

\* Lines 122-129 of a call.
CallReturn(id) ==
    /\ calls[id].pc = "loop"
    /\ calls[id].loc.length = 0
    /\ calls' = [calls EXCEPT ![id].pc = "done",
                              ![id].out = CompressFinish(calls[id].loc),
                              ![id].loc = Idle]
    /\ UNCHANGED <<scratch, notCalls>>

NextReentrant == \E id \in CallIds : CallBegin(id) \/ CallIter(id) \/ CallReturn(id)

SpecReentrant == InitReentrant /\ [][NextReentrant]_vars

\* C8: whatever the interleaving, a call returns the bytes the same call
\* returns when run alone, and two calls on the same input return the same
\* bytes.
Reentrant ==
    /\ \A id \in CallIds : calls[id].pc = "done" => calls[id].out = calls[id].alone
    /\ \A i, j \in CallIds :
         calls[i].pc = "done" /\ calls[j].pc = "done" /\ calls[i].src = calls[j].src
             => calls[i].out = calls[j].out

\* C8 witness: two calls on different inputs have both returned.
ReentrantWitness ==
    /\ calls # <<>>
    /\ \A id \in CallIds : calls[id].pc = "done" /\ Len(calls[id].out) > 2
    /\ calls[1].src # calls[2].src


(***************************************************************************)
(* BIN scripts (pkg/bin).  A file is a sequence of bytes; a text is a      *)
(* sequence of characters.  A character is a one-character string; the     *)
(* characters without a printable form are named (NUL, U+FF71).  The       *)
(* repertoire of the model is printable ASCII, NUL, tab, line feed,        *)
(* carriage return and the half-width katakana U+FF71 (Shift-JIS 0xB1).    *)
(***************************************************************************)
Ascii ==
    <<" ", "!", "\"", "#", "$", "%", "&", "'", "(", ")", "*", "+", ",", "-", ".", "/",
      "0", "1", "2", "3", "4", "5", "6", "7", "8", "9", ":", ";", "<", "=", ">", "?",
      "@", "A", "B", "C", "D", "E", "F", "G", "H", "I", "J", "K", "L", "M", "N", "O",
      "P", "Q", "R", "S", "T", "U", "V", "W", "X", "Y", "Z", "[", "\\", "]", "^", "_",
      "U+0060", "a", "b", "c", "d", "e", "f", "g", "h", "i", "j", "k", "l", "m", "n", "o",
      "p", "q", "r", "s", "t", "u", "v", "w", "x", "y", "z", "{", "|", "}", "~">>
NUL == "NUL"
TAB == "\t"
LF == "\n"
CR == "\r"
Kana == "U+FF71"
Replacement == "U+FFFD"

\* rune(code): the character of a code point.
Chr(code) ==
    IF code >= 32 /\ code <= 126 THEN Ascii[code - 31]
    ELSE IF code = 0 THEN NUL
    ELSE IF code = 9 THEN TAB
    ELSE IF code = 10 THEN LF
    ELSE IF code = 13 THEN CR
    ELSE IF code = 65393 THEN Kana
    ELSE Replacement

\* The code point of a character.
Ord(ch) ==
    IF ch = NUL THEN 0
    ELSE IF ch = TAB THEN 9
    ELSE IF ch = LF THEN 10
    ELSE IF ch = CR THEN 13
    ELSE IF ch = Kana THEN 65393
    ELSE IF ch = Replacement THEN 65533
    ELSE LET Index(table) == CHOOSE i \in 1..Len(table) : table[i] = ch
         IN 31 + Index(Ascii)

IsDigit(ch) == ch \in {"0", "1", "2", "3", "4", "5", "6", "7", "8", "9"}
IsHexDigit(ch) == IsDigit(ch) \/ ch \in {"A", "B", "C", "D", "E", "F", "a", "b", "c", "d", "e", "f"}
\* The regexp class \w.
IsWord(ch) ==
    LET IsLetter(code) == (code >= 65 /\ code <= 90) \/ (code >= 97 /\ code <= 122)
    IN IsDigit(ch) \/ ch = "_" \/ IsLetter(Ord(ch))
\* unicode.IsSpace on the repertoire (strings.TrimSpace, strings.Fields, \s).
IsSpace(ch) == ch \in {" ", TAB, LF, CR}

Drop(s, n) == SubSeq(s, n + 1, Len(s))
Take(s, n) == SubSeq(s, 1, n)
HasPrefix(s, p) == Len(s) >= Len(p) /\ Take(s, Len(p)) = p

RECURSIVE TrimLeft(_, _)
TrimLeft(s, cutset) == IF s # <<>> /\ s[1] \in cutset THEN TrimLeft(Tail(s), cutset) ELSE s
RECURSIVE TrimRight(_, _)
TrimRight(s, cutset) ==
    IF s # <<>> /\ s[Len(s)] \in cutset THEN TrimRight(Take(s, Len(s) - 1), cutset) ELSE s
Trim(s, cutset) == TrimRight(TrimLeft(s, cutset), cutset)
TrimSpace(s) == Trim(s, {" ", TAB, LF, CR})

\* The length of the longest prefix of s whose characters satisfy the class.
RECURSIVE Span(_, _)
Span(s, class) == IF s # <<>> /\ s[1] \in class THEN 1 + Span(Tail(s), class) ELSE 0

\* strings.ReplaceAll for a non-empty old: left to right, non-overlapping.
RECURSIVE ReplaceAll(_, _, _)
ReplaceAll(s, old, new) ==
    IF s = <<>> THEN <<>>
    ELSE IF HasPrefix(s, old) THEN new \o ReplaceAll(Drop(s, Len(old)), old, new)
    ELSE <<s[1]>> \o ReplaceAll(Tail(s), old, new)

Chars(s) == {s[i] : i \in 1..Len(s)}
WordChars(s) == {c \in Chars(s) : IsWord(c)}

\* The pieces of s between occurrences of the separator character.
RECURSIVE Split(_, _)
Split(s, sep) ==
    LET n == Span(s, Chars(s) \ {sep})
    IN IF n = Len(s) THEN <<s>> ELSE <<Take(s, n)>> \o Split(Drop(s, n + 1), sep)

\* strings.Fields: the maximal runs of non-space characters.
RECURSIVE Fields(_)
Fields(s) ==
    LET t == TrimLeft(s, {" ", TAB, LF, CR})
        n == Span(t, Chars(t) \ {" ", TAB, LF, CR})
    IN IF t = <<>> THEN <<>> ELSE <<Take(t, n)>> \o Fields(Drop(t, n))

\* bufio.ScanLines: the lines of a text, without the line feed and without
\* one trailing carriage return; a final empty line is no line.
ScanLines(text) ==
    LET parts == Split(text, LF)
        lines == IF parts[Len(parts)] = <<>> THEN Take(parts, Len(parts) - 1) ELSE parts
    IN [i \in 1..Len(lines) |->
          IF lines[i] # <<>> /\ lines[i][Len(lines[i])] = CR
          THEN Take(lines[i], Len(lines[i]) - 1) ELSE lines[i]]

RECURSIVE Concat(_)
Concat(ss) == IF ss = <<>> THEN <<>> ELSE ss[1] \o Concat(Tail(ss))

\* strings.Join.
RECURSIVE Join(_, _)
Join(ss, sep) ==
    IF ss = <<>> THEN <<>>
    ELSE IF Len(ss) = 1 THEN ss[1] ELSE ss[1] \o sep \o Join(Tail(ss), sep)

\* A uint32 is held as the 32-bit two-complement integer with the same
\* bits, the widest integer the checker computes with: 0xFFFFFFFF is -1.
\* Half == 2^31 is not representable, Half - 1 is.
MaxInt32 == 2147483647
\* int(x) * 4 for a uint32 x, as far as it can be below the length of a
\* file: every product of 2^29 or more is Huge, which exceeds every length.
Huge == 536870912
Scale4(x) == IF x < 0 \/ x >= Huge \div 4 THEN Huge ELSE x * 4

\* fmt %d of a uint32: the decimal digits of its unsigned reading.
RECURSIVE FormatDec(_)
FormatDec(v) ==
    IF v < 0
    THEN LET a == (v + MaxInt32) + 1
         IN FormatDec(a \div 10 + 214748364 + ((a % 10) + 8) \div 10)
              \o <<Ascii[17 + (((a % 10) + 8) % 10)]>>
    ELSE IF v < 10 THEN <<Ascii[17 + v]>>
    ELSE FormatDec(v \div 10) \o <<Ascii[17 + (v % 10)]>>

HexUpper == <<"0", "1", "2", "3", "4", "5", "6", "7", "8", "9", "A", "B", "C", "D", "E", "F">>
\* fmt %08X of a non-negative int.
RECURSIVE FormatHex(_, _)
FormatHex(v, width) ==
    IF width <= 1 /\ v < 16 THEN <<HexUpper[v + 1]>>
    ELSE FormatHex(v \div 16, width - 1) \o <<HexUpper[(v % 16) + 1]>>

\* The value of a digit character in bases up to 16, 16 for no digit.
DigitValue(ch) ==
    LET Value(code) ==
          IF IsDigit(ch) THEN code - 48
          ELSE IF ch \in {"a", "b", "c", "d", "e", "f"} THEN code - 87
          ELSE IF ch \in {"A", "B", "C", "D", "E", "F"} THEN code - 55
          ELSE 16
    IN Value(Ord(ch))

\* strconv digits in a base, accumulated in four 16-bit limbs (low first),
\* with whether the value passed 2^64 - 1.
RECURSIVE Accumulate(_, _, _)
Accumulate(ds, base, acc) ==
    IF ds = <<>> THEN acc
    ELSE LET Carry(digit) ==
               LET l0 == acc.l0 * base + digit
                   l1 == acc.l1 * base + l0 \div 65536
                   l2 == acc.l2 * base + l1 \div 65536
                   l3 == acc.l3 * base + l2 \div 65536
               IN Accumulate(Tail(ds), base,
                             [l0 |-> l0 % 65536, l1 |-> l1 % 65536, l2 |-> l2 % 65536,
                              l3 |-> l3 % 65536, over64 |-> acc.over64 \/ l3 >= 65536])
         IN Carry(DigitValue(ds[1]))
ZeroLimbs == [l0 |-> 0, l1 |-> 0, l2 |-> 0, l3 |-> 0, over64 |-> FALSE]
\* The low 32 bits of the limbs, as a uint32.
LimbsValue(acc) == (IF acc.l1 >= 32768 THEN acc.l1 - 65536 ELSE acc.l1) * 65536 + acc.l0
Over32(acc) == acc.over64 \/ acc.l2 # 0 \/ acc.l3 # 0
Over63(acc) == acc.over64 \/ acc.l3 >= 32768
IsDigitsIn(s, base) == s # <<>> /\ \A i \in 1..Len(s) : DigitValue(s[i]) < base
IsDigits(s) == IsDigitsIn(s, 10)
\* uint32(-x) for a uint32 x.
Negate32(x) == IF x = (0 - MaxInt32) - 1 THEN x ELSE 0 - x

\* encoding/binary LittleEndian.Uint32 at a 0-based offset, and PutUint32.
ReadU32(data, off) ==
    data[off + 1] + 256 * data[off + 2] + 65536 * data[off + 3]
      + 16777216 * (IF data[off + 4] >= 128 THEN data[off + 4] - 256 ELSE data[off + 4])
PutU32(v) == <<v % 256, (v \div 256) % 256, (v \div 65536) % 256, (v \div 16777216) % 256>>
ReadU16(data, off) == data[off + 1] + 256 * data[off + 2]

FormatSYS4 == 4
FormatSYS5 == 5
SYS4HeaderSize == 60
SYS5HeaderSize == 68

ArgImmediate == 0
ArgFloat == 1
ArgString == 2
\* ArgumentType.String(): the type label; the empty label is ArgImmediate's.
TypeNames ==
    <<<<0, <<>>>>, <<1, <<"f", "l", "o", "a", "t">>>>, <<2, <<"s", "t", "r", "i", "n", "g">>>>, <<3, <<"g", "l", "o", "b", "a", "l", "-", "i", "n", "t">>>>,
      <<4, <<"g", "l", "o", "b", "a", "l", "-", "f", "l", "o", "a", "t">>>>, <<5, <<"g", "l", "o", "b", "a", "l", "-", "s", "t", "r", "i", "n", "g">>>>, <<6, <<"g", "l", "o", "b", "a", "l", "-", "p", "t", "r">>>>,
      <<8, <<"g", "l", "o", "b", "a", "l", "-", "s", "t", "r", "i", "n", "g", "-", "p", "t", "r">>>>, <<9, <<"l", "o", "c", "a", "l", "-", "i", "n", "t">>>>, <<10, <<"l", "o", "c", "a", "l", "-", "f", "l", "o", "a", "t">>>>,
      <<11, <<"l", "o", "c", "a", "l", "-", "s", "t", "r", "i", "n", "g">>>>, <<12, <<"l", "o", "c", "a", "l", "-", "p", "t", "r">>>>, <<13, <<"l", "o", "c", "a", "l", "-", "f", "l", "o", "a", "t", "-", "p", "t", "r">>>>,
      <<14, <<"l", "o", "c", "a", "l", "-", "s", "t", "r", "i", "n", "g", "-", "p", "t", "r">>>>, <<32771, <<"e", "x", "t", "-", "8", "0", "0", "3">>>>, <<32773, <<"e", "x", "t", "-", "8", "0", "0", "5">>>>,
      <<32777, <<"e", "x", "t", "-", "8", "0", "0", "9">>>>, <<32779, <<"e", "x", "t", "-", "8", "0", "0", "B">>>>>>
TypeString(t) ==
    LET Name(names) ==
          IF \E i \in 1..Len(names) : names[i][1] = t
          THEN names[CHOOSE i \in 1..Len(names) : names[i][1] = t][2]
          ELSE <<"u", "n", "k", "n", "o", "w", "n">>
    IN Name(TypeNames)

\* parseArgType: the tag of a type label; any other word is ArgImmediate.
parseArgType(s) ==
    LET Tag(names) ==
          IF \E i \in 2..Len(names) : names[i][2] = s
          THEN names[CHOOSE i \in 2..Len(names) : names[i][2] = s][1]
          ELSE ArgImmediate
    IN Tag(TypeNames)

\* Header.GetLength.
GetLength(h) == IF h.Version = FormatSYS5 THEN SYS5HeaderSize ELSE SYS4HeaderSize

\* Header.DataArrayEnd.
DataArrayEnd(h) ==
    IF h.Table1Length # 0 THEN GetLength(h) + Scale4(h.Table1Offset)
    ELSE IF h.Table2Length # 0 THEN GetLength(h) + Scale4(h.Table2Offset)
    ELSE IF h.Table3Length # 0 THEN GetLength(h) + Scale4(h.Table3Offset)
    ELSE 0

\* decodeUTF16LE: code units up to the first zero.
RECURSIVE decodeUTF16LE(_)
decodeUTF16LE(data) ==
    IF Len(data) < 2 \/ ReadU16(data, 0) = 0 THEN <<>>
    ELSE <<Chr(ReadU16(data, 0))>> \o decodeUTF16LE(Drop(data, 2))

\* encodeUTF16LE: uint16(r) of each rune, low byte first.
encodeUTF16LE(s) ==
    LET Unit(code) == <<code % 256, (code \div 256) % 256>>
    IN Concat([i \in 1..Len(s) |-> Unit(Ord(s[i]))])

\* DetectFormat: the version and the error ("" for none).
DetectFormat(data) ==
    LET Magic(S, Y, five, four) ==
          IF Len(data) < 16 THEN [Version |-> 0, err |-> "unexpected EOF"]
          ELSE IF /\ data[2] = 0 /\ data[4] = 0 /\ data[6] = 0 /\ data[8] = 0
                  /\ data[1] = S /\ data[3] = Y /\ data[5] = S /\ data[7] = five
          THEN [Version |-> FormatSYS5, err |-> ""]
          ELSE IF data[1] = S /\ data[2] = Y /\ data[3] = S /\ data[4] = four
          THEN [Version |-> FormatSYS4, err |-> ""]
          ELSE [Version |-> 0, err |-> "invalid BIN file magic"]
    IN Magic(Ord("S"), Ord("Y"), Ord("5"), Ord("4"))

\* The thirteen uint32 fields of a header, read at offset 0x10 or 0x08.
HeaderFields(data, version, signature, offset) ==
    [err |-> "", Version |-> version, Signature |-> signature,
     LocalInteger1 |-> ReadU32(data, offset),
     LocalFloats |-> ReadU32(data, offset + 4),
     LocalStrings1 |-> ReadU32(data, offset + 8),
     LocalInteger2 |-> ReadU32(data, offset + 12),
     UnknownData |-> ReadU32(data, offset + 16),
     LocalStrings2 |-> ReadU32(data, offset + 20),
     SubHeaderLen |-> ReadU32(data, offset + 24),
     Table1Length |-> ReadU32(data, offset + 28),
     Table1Offset |-> ReadU32(data, offset + 32),
     Table2Length |-> ReadU32(data, offset + 36),
     Table2Offset |-> ReadU32(data, offset + 40),
     Table3Length |-> ReadU32(data, offset + 44),
     Table3Offset |-> ReadU32(data, offset + 48)]

\* ReadHeader: the header record, err = "" on success.
ReadHeader(data) ==
    LET Read(format) ==
          IF format.err # "" THEN [err |-> format.err]
          ELSE IF Len(data) < (IF format.Version = FormatSYS5 THEN SYS5HeaderSize ELSE SYS4HeaderSize)
          THEN [err |-> "unexpected EOF"]
          ELSE IF format.Version = FormatSYS5
          THEN HeaderFields(data, format.Version, decodeUTF16LE(Take(data, 16)), 16)
          ELSE HeaderFields(data, format.Version, [i \in 1..8 |-> Chr(data[i])], 8)
    IN Read(DetectFormat(data))

\* The signature bytes of WriteHeader: SYS5 pads with spaces to 8 characters
\* and writes UTF-16LE; SYS4 copies at most 8 bytes into a zeroed buffer.
RECURSIVE PadRight(_, _, _)
PadRight(s, n, x) == IF Len(s) < n THEN PadRight(s \o <<x>>, n, x) ELSE s
SignatureBytes(h) ==
    IF h.Version = FormatSYS5
    THEN encodeUTF16LE(Take(PadRight(h.Signature, 8, " "), 8))
    ELSE PadRight([i \in 1..Min(8, Len(h.Signature)) |-> Ord(h.Signature[i])], 8, 0)

\* Header.WriteHeader.
WriteHeader(h) ==
    SignatureBytes(h)
      \o PutU32(h.LocalInteger1) \o PutU32(h.LocalFloats) \o PutU32(h.LocalStrings1)
      \o PutU32(h.LocalInteger2) \o PutU32(h.UnknownData) \o PutU32(h.LocalStrings2)
      \o PutU32(h.SubHeaderLen)
      \o PutU32(h.Table1Length) \o PutU32(h.Table1Offset)
      \o PutU32(h.Table2Length) \o PutU32(h.Table2Offset)
      \o PutU32(h.Table3Length) \o PutU32(h.Table3Offset)

(***************************************************************************)
(* The opcode table.  The file that declares it (LookupOpcode, LookupLabel,*)
(* IsControlFlow, IsLabelArgument, InstructionDefinition) is not part of   *)
(* the sources at hand; the entries below follow the specification: each   *)
(* entry is (numeric, mnemonic, argument count, control-flow class,        *)
(* label-argument index); exit is opcode 0xFF without arguments; jmp takes *)
(* a code offset; 0x64 takes an array reference as its second argument;    *)
(* opcodes 0x71, 0x03 and 0x8F are the ones the three tables list.         *)
(***************************************************************************)
NoLabelArg == 0 - 1
OpcodeTable ==
    {[Opcode |-> 255, Label |-> <<"e", "x", "i", "t">>, ArgCount |-> 0, ControlFlow |-> FALSE, LabelArg |-> NoLabelArg],
     [Opcode |-> 140, Label |-> <<"j", "m", "p">>, ArgCount |-> 1, ControlFlow |-> TRUE, LabelArg |-> 0],
     [Opcode |-> 100, Label |-> <<"c", "o", "p", "y", "-", "l", "o", "c", "a", "l", "-", "a", "r", "r", "a", "y">>, ArgCount |-> 2, ControlFlow |-> FALSE, LabelArg |-> NoLabelArg],
     [Opcode |-> 113, Label |-> <<"o", "p", "7", "1">>, ArgCount |-> 0, ControlFlow |-> FALSE, LabelArg |-> NoLabelArg],
     [Opcode |-> 3, Label |-> <<"o", "p", "0", "3">>, ArgCount |-> 1, ControlFlow |-> FALSE, LabelArg |-> NoLabelArg],
     [Opcode |-> 143, Label |-> <<"o", "p", "8", "F">>, ArgCount |-> 1, ControlFlow |-> FALSE, LabelArg |-> NoLabelArg]}
NoDef == [Opcode |-> 0 - 1]
LookupOpcode(opcode) ==
    LET Find(table) == IF \E d \in table : d.Opcode = opcode
                       THEN CHOOSE d \in table : d.Opcode = opcode ELSE NoDef
    IN Find(OpcodeTable)
LookupLabel(mnemonic) ==
    LET Find(table) == IF \E d \in table : d.Label = mnemonic
                       THEN CHOOSE d \in table : d.Label = mnemonic ELSE NoDef
    IN Find(OpcodeTable)
IsControlFlow(opcode) == \E d \in OpcodeTable : d.Opcode = opcode /\ d.ControlFlow
IsLabelArgument(instr, j) == LookupOpcode(instr.Opcode).LabelArg = j

(***************************************************************************)
(* Disassemble (disassemble.go).                                           *)
(***************************************************************************)
Argument(type, raw) ==
    [Type |-> type, RawValue |-> raw, StringVal |-> <<>>, DataArray |-> <<>>,
     IsLabel |-> FALSE, LabelName |-> <<>>]

\* parseInstruction: err = "" and the instruction, or the error.
parseInstruction(data, offset) ==
    IF offset + 4 > Len(data) THEN [err |-> "unexpected EOF"]
    ELSE LET opcode == ReadU32(data, offset)
             Parse(def) ==
               IF def = NoDef THEN [err |-> "unknown opcode"]
               ELSE IF offset + 4 + 8 * def.ArgCount > Len(data) THEN [err |-> "unexpected EOF"]
               ELSE [err |-> "", Offset |-> offset, Opcode |-> opcode,
                     Arguments |-> [i \in 1..def.ArgCount |->
                                      Argument(ReadU32(data, offset + 4 + 8 * (i - 1)),
                                               ReadU32(data, offset + 8 + 8 * (i - 1)))]]
         IN Parse(LookupOpcode(opcode))

\* Instruction.Size.
Size(instr) == 4 + Len(instr.Arguments) * 8

\* First pass of Disassemble: instructions from offset up to dataEnd, stopping
\* at the first one that does not parse.
RECURSIVE ParseInstructions(_, _, _)
ParseInstructions(data, offset, dataEnd) ==
    IF offset >= dataEnd THEN <<>>
    ELSE LET Next(instr) ==
               IF instr.err # "" THEN <<>>
               ELSE <<instr>> \o ParseInstructions(data, offset + Size(instr), dataEnd)
         IN Next(parseInstruction(data, offset))

\* A mutant of IsCodeOffset: every target is taken for a code offset.
AnyOffset(instrOffsets, targetOffset) == TRUE

\* instrOffsets[targetOffset]: the target is the start of a parsed instruction.
IsCodeOffset(instrOffsets, targetOffset) == targetOffset \in instrOffsets

LabelPrefix == <<"l", "a", "b", "e", "l", "_">>
\* fmt.Sprintf("label_%08X", off).
LabelNameOf(off) == LabelPrefix \o FormatHex(off, 8)

\* Second pass of Disassemble on one instruction: its label arguments.
MarkLabels(instr, headerLen, instrOffsets) ==
    IF ~IsControlFlow(instr.Opcode) THEN instr
    ELSE [instr EXCEPT !.Arguments =
            [j \in 1..Len(instr.Arguments) |->
               LET arg == instr.Arguments[j]
                   targetOffset == headerLen + Scale4(arg.RawValue)
               IN IF IsLabelArgument(instr, j - 1) /\ IsCodeOffset(instrOffsets, targetOffset)
                  THEN [arg EXCEPT !.IsLabel = TRUE, !.LabelName = LabelNameOf(targetOffset)]
                  ELSE arg]]

\* The offsets the second pass puts in labelOffsets.
LabelOffsets(instrs, headerLen) ==
    {headerLen + Scale4(instrs[p[1]].Arguments[p[2]].RawValue) :
        p \in {p \in UNION {{<<i, j>> : j \in 1..Len(instrs[i].Arguments)} : i \in 1..Len(instrs)} :
                          instrs[p[1]].Arguments[p[2]].IsLabel}}

\* japanese.ShiftJIS decoder on the repertoire: ASCII bytes and the
\* half-width katakana 0xA1..0xDF; other bytes decode to U+FFFD.
SjisDecode(bytes) ==
    [i \in 1..Len(bytes) |->
       IF bytes[i] < 128 THEN Chr(bytes[i])
       ELSE IF bytes[i] >= 161 /\ bytes[i] <= 223 THEN Chr(bytes[i] + 65216)
       ELSE Replacement]

\* The XOR'd code units of a SYS5 string from a 0-based offset up to the
\* terminator 0xFFFF or the end of the data.
RECURSIVE DecodeUnits(_, _)
DecodeUnits(data, i) ==
    IF i + 1 >= Len(data) \/ ReadU16(data, i) = 65535 THEN <<>>
    ELSE <<Chr(65535 - ReadU16(data, i))>> \o DecodeUnits(data, i + 2)

\* The XOR'd bytes of a SYS4 string up to the terminator 0xFF.
RECURSIVE DecodeBytes(_, _)
DecodeBytes(data, i) ==
    IF i >= Len(data) \/ data[i + 1] = 255 THEN <<>>
    ELSE <<255 - data[i + 1]>> \o DecodeBytes(data, i + 1)

\* decodeString.
decodeString(data, offset, version) ==
    IF offset >= Len(data) THEN [err |-> "unexpected EOF", str |-> <<>>]
    ELSE IF version = FormatSYS5 THEN [err |-> "", str |-> DecodeUnits(data, offset)]
    ELSE [err |-> "", str |-> SjisDecode(DecodeBytes(data, offset))]

\* readDataArray.
readDataArray(data, offset) ==
    IF offset + 4 > Len(data) THEN [err |-> "unexpected EOF", arr |-> <<>>]
    ELSE IF offset + 4 + Scale4(ReadU32(data, offset)) > Len(data)
    THEN [err |-> "unexpected EOF", arr |-> <<>>]
    ELSE [err |-> "", arr |-> [i \in 1..ReadU32(data, offset) |-> ReadU32(data, offset + 4 * i)]]

\* readTable.
readTable(data, offset, length) ==
    IF offset < 0 \/ length = 0 \/ offset + Scale4(length) > Len(data) THEN <<>>
    ELSE [i \in 1..length |-> ReadU32(data, offset + (i - 1) * 4)]

\* Third pass of Disassemble on one instruction: strings and the array of
\* opcode 0x64.
DecodeOperands(instr, data, header) ==
    LET WithString(arg, s) ==
          IF arg.Type = ArgString /\ s.err = "" THEN [arg EXCEPT !.StringVal = s.str] ELSE arg
        WithArray(withStrings, arg, a) ==
          IF arg.Type \in {ArgString, ArgImmediate} /\ a.err = ""
          THEN [instr EXCEPT !.Arguments =
                  [withStrings EXCEPT ![2] = [arg EXCEPT !.DataArray = a.arr]]]
          ELSE [instr EXCEPT !.Arguments = withStrings]
        Array(withStrings) ==
          IF instr.Opcode = 100 /\ Len(instr.Arguments) >= 2
          THEN WithArray(withStrings, withStrings[2],
                         readDataArray(data, GetLength(header) + Scale4(withStrings[2].RawValue)))
          ELSE [instr EXCEPT !.Arguments = withStrings]
    IN Array([j \in 1..Len(instr.Arguments) |->
                WithString(instr.Arguments[j],
                           decodeString(data, GetLength(header) + Scale4(instr.Arguments[j].RawValue),
                                        header.Version))])

\* Disassemble.
Disassemble(data) ==
    LET Passes(header, headerLen, marked) ==
          [err |-> "", Header |-> header,
           Instructions |-> [i \in 1..Len(marked) |-> DecodeOperands(marked[i], data, header)],
           Labels |-> [off \in LabelOffsets(marked, headerLen) |-> LabelNameOf(off)],
           Tables |-> <<readTable(data, headerLen + Scale4(header.Table1Offset), header.Table1Length),
                        readTable(data, headerLen + Scale4(header.Table2Offset), header.Table2Length),
                        readTable(data, headerLen + Scale4(header.Table3Offset), header.Table3Length)>>]
        Second(header, headerLen, parsed) ==
          Passes(header, headerLen,
                 [i \in 1..Len(parsed) |->
                    MarkLabels(parsed[i], headerLen, {parsed[k].Offset : k \in 1..Len(parsed)})])
        First(header, headerLen, end) ==
          Second(header, headerLen,
                 ParseInstructions(data, headerLen,
                                   IF end = 0 \/ end > Len(data) THEN Len(data) ELSE end))
        Read(header) ==
          IF header.err # "" THEN [err |-> "failed to read header"]
          ELSE First(header, GetLength(header), DataArrayEnd(header))
    IN Read(ReadHeader(data))

\* formatArgument.
formatArgument(arg) ==
    IF arg.IsLabel THEN arg.LabelName
    ELSE IF arg.Type = ArgString /\ arg.StringVal # <<>>
    THEN <<"\"">>
         \o ReplaceAll(ReplaceAll(ReplaceAll(ReplaceAll(ReplaceAll(arg.StringVal,
              <<"\\">>, <<"\\", "\\">>),
              <<"\"">>, <<"\\", "\"">>),
              <<LF>>, <<"\\", "n">>),
              <<CR>>, <<"\\", "r">>),
              <<TAB>>, <<"\\", "t">>)
         \o <<"\"">>
    ELSE IF Len(arg.DataArray) > 0
    THEN <<"[">> \o Join([i \in 1..Len(arg.DataArray) |-> FormatDec(arg.DataArray[i])], <<",", " ">>)
         \o <<"]">>
    ELSE IF TypeString(arg.Type) # <<>>
    THEN TypeString(arg.Type) \o <<":">> \o FormatDec(arg.RawValue)
    ELSE FormatDec(arg.RawValue)

HeaderOpen == <<"=", "=", "B", "i", "n", "a", "r", "y", " ", "I", "n", "f", "o", "r", "m", "a", "t", "i", "o", "n", " ", "-", " ", "d", "o", " ", "n", "o", "t", " ", "e", "d", "i", "t", "=", "=">>
HeaderClose == <<"=", "=", "=", "=">>

\* One instruction of ToText: the label line when the offset has a label,
\* the mnemonic after four spaces, the arguments each after one space.
InstructionText(s, instr) ==
    (IF instr.Offset \in DOMAIN s.Labels
     THEN <<LF>> \o s.Labels[instr.Offset] \o <<":", LF>> ELSE <<>>)
      \o <<" ", " ", " ", " ">> \o LookupOpcode(instr.Opcode).Label
      \o Concat([i \in 1..Len(instr.Arguments) |-> <<" ">> \o formatArgument(instr.Arguments[i])])
      \o <<LF>>

\* Script.ToText.
ToText(s) ==
    HeaderOpen \o <<LF>>
      \o <<"s", "i", "g", "n", "a", "t", "u", "r", "e", " ", "=", " ">> \o TrimRight(s.Header.Signature, {NUL, " "}) \o <<LF>>
      \o <<"l", "o", "c", "a", "l", "_", "v", "a", "r", "s", " ", "=", " ", "{", " ">>
      \o Join(<<FormatDec(s.Header.LocalInteger1), FormatDec(s.Header.LocalFloats),
                FormatDec(s.Header.LocalStrings1), FormatDec(s.Header.LocalInteger2),
                FormatDec(s.Header.UnknownData), FormatDec(s.Header.LocalStrings2)>>, <<" ">>)
      \o <<" ", "}">> \o <<LF>>
      \o HeaderClose \o <<LF, LF>>
      \o Concat([i \in 1..Len(s.Instructions) |-> InstructionText(s, s.Instructions[i])])

(***************************************************************************)
(* Assemble (assemble.go).                                                 *)
(***************************************************************************)
\* The digits of a strconv integer without its sign.  Base 0 takes 0x for
\* hexadecimal and a leading 0 for octal; the prefixes 0b and 0o and
\* underscores are outside the model's texts.
ParseMagnitude(body, base) ==
    LET hex == base = 0 /\ Len(body) > 2 /\ body[1] = "0" /\ body[2] \in {"x", "X"}
        oct == base = 0 /\ ~hex /\ Len(body) > 1 /\ body[1] = "0"
        b   == IF hex THEN 16 ELSE IF oct THEN 8 ELSE 10
        ds  == IF hex THEN Drop(body, 2) ELSE IF oct THEN Tail(body) ELSE body
    IN [ok |-> IsDigitsIn(ds, b), acc |-> Accumulate(ds, b, ZeroLimbs)]

\* strconv.ParseUint(s, base, 32): ok tells whether err is nil; val is 0 on
\* a syntax error and the maximum on a range error.
ParseUint(s, base) ==
    LET Result(m) ==
          IF ~m.ok THEN [ok |-> FALSE, val |-> 0]
          ELSE IF Over32(m.acc) THEN [ok |-> FALSE, val |-> 0 - 1]
          ELSE [ok |-> TRUE, val |-> LimbsValue(m.acc)]
    IN Result(ParseMagnitude(s, base))

\* parseUint32: ParseUint in base 10 with the error dropped.
parseUint32(s) == ParseUint(s, 10).val

\* strconv.ParseInt(s, base, 64) converted with uint32(val): on a range
\* error val is the nearest int64.
ParseInt(s, base) ==
    LET neg == s # <<>> /\ s[1] = "-"
        Result(m) ==
          LET min == m.acc.l3 = 32768 /\ m.acc.l2 = 0 /\ m.acc.l1 = 0 /\ m.acc.l0 = 0 /\ ~m.acc.over64
          IN IF ~m.ok THEN [ok |-> FALSE, val |-> 0]
             ELSE IF Over63(m.acc) /\ ~(neg /\ min)
             THEN [ok |-> FALSE, val |-> IF neg THEN 0 ELSE 0 - 1]
             ELSE [ok |-> TRUE, val |-> IF neg THEN Negate32(LimbsValue(m.acc)) ELSE LimbsValue(m.acc)]
    IN Result(ParseMagnitude(IF s # <<>> /\ s[1] \in {"+", "-"} THEN Tail(s) ELSE s, base))

\* strconv.ParseFloat(token, 32) and math.Float32bits on the float
\* literals of the model's texts; any other token is not a float.
FloatLiterals == <<<<<<"1", ".", "5">>, 1069547520>>, <<<<"0", ".", "5">>, 1056964608>>>>
ParseFloat(s) ==
    IF \E i \in 1..Len(FloatLiterals) : FloatLiterals[i][1] = s
    THEN [ok |-> TRUE, bits |-> FloatLiterals[CHOOSE i \in 1..Len(FloatLiterals) : FloatLiterals[i][1] = s][2]]
    ELSE [ok |-> FALSE, bits |-> 0]

\* headerLineRE ^(\w+)\s*=\s*(.+)$ on a trimmed line.
HeaderLineMatch(line) ==
    LET k     == Span(line, WordChars(line))
        rest  == TrimLeft(Drop(line, k), {" ", TAB, CR})
        value == IF rest # <<>> /\ rest[1] = "=" THEN TrimLeft(Tail(rest), {" ", TAB, CR}) ELSE <<>>
    IN [ok |-> k > 0 /\ value # <<>>, key |-> Take(line, k), value |-> value]

ZeroHeader ==
    [err |-> "", Version |-> 0, Signature |-> <<>>,
     LocalInteger1 |-> 0, LocalFloats |-> 0, LocalStrings1 |-> 0, LocalInteger2 |-> 0,
     UnknownData |-> 0, LocalStrings2 |-> 0, SubHeaderLen |-> 0,
     Table1Length |-> 0, Table1Offset |-> 0, Table2Length |-> 0, Table2Offset |-> 0,
     Table3Length |-> 0, Table3Offset |-> 0]

\* One line of the header block (assemble.go 124-153) applied to the parser.
HeaderLine(p, line) ==
    LET LocalVars(v) ==
          [p EXCEPT !.header.LocalInteger1 = v[1], !.header.LocalFloats = v[2],
                    !.header.LocalStrings1 = v[3], !.header.LocalInteger2 = v[4],
                    !.header.UnknownData = v[5], !.header.LocalStrings2 = v[6]]
        Entry(m, parts) ==
          IF ~m.ok THEN p
          ELSE IF m.key = <<"s", "i", "g", "n", "a", "t", "u", "r", "e">>
          THEN IF HasPrefix(m.value, <<"S", "Y", "S", "5">>)
               THEN [p EXCEPT !.header.Signature = m.value, !.version = FormatSYS5,
                              !.header.Version = FormatSYS5]
               ELSE IF HasPrefix(m.value, <<"S", "Y", "S", "4">>)
               THEN [p EXCEPT !.header.Signature = m.value, !.version = FormatSYS4,
                              !.header.Version = FormatSYS4]
               ELSE [p EXCEPT !.header.Signature = m.value]
          ELSE IF m.key = <<"l", "o", "c", "a", "l", "_", "v", "a", "r", "s">> /\ Len(parts) >= 6
          THEN LocalVars([i \in 1..6 |-> parseUint32(parts[i])])
          ELSE p
        Matched(m) == Entry(m, Fields(Trim(m.value, {"{", " ", "}"})))
    IN Matched(HeaderLineMatch(line))

\* The scan of parseHeader from line i.
RECURSIVE HeaderScan(_, _, _, _)
HeaderScan(p, lines, i, inHeader) ==
    IF i > Len(lines) THEN p
    ELSE LET Line(line) ==
               IF line = HeaderOpen THEN HeaderScan(p, lines, i + 1, TRUE)
               ELSE IF line = HeaderClose THEN p
               ELSE IF ~inHeader THEN HeaderScan(p, lines, i + 1, inHeader)
               ELSE HeaderScan(HeaderLine(p, line), lines, i + 1, inHeader)
         IN Line(TrimSpace(lines[i]))

\* assemblyParser.parseHeader.
parseHeader(p, text) ==
    [HeaderScan(p, ScanLines(text), 1, FALSE) EXCEPT !.header.SubHeaderLen = 28]

\* unescapeString: five replacements one after the other.
unescapeString(s) ==
    ReplaceAll(ReplaceAll(ReplaceAll(ReplaceAll(ReplaceAll(s,
        <<"\\", "n">>, <<LF>>),
        <<"\\", "r">>, <<CR>>),
        <<"\\", "t">>, <<TAB>>),
        <<"\\", "\"">>, <<"\"">>),
        <<"\\", "\\">>, <<"\\">>)

\* stringArgRE ^"((?:[^"\\]|\\.)*)": the length of the match from the
\* opening quote at position 1, the scan being at position i; 0 for no match.
RECURSIVE StringMatchLen(_, _)
StringMatchLen(s, i) ==
    IF i > Len(s) THEN 0
    ELSE IF s[i] = "\"" THEN i
    ELSE IF s[i] = "\\" THEN (IF i + 1 > Len(s) \/ s[i + 1] = LF THEN 0 ELSE StringMatchLen(s, i + 2))
    ELSE StringMatchLen(s, i + 1)

\* parseArrayValues: the parts that strconv.ParseUint(part, 0, 32) accepts.
parseArrayValues(s) ==
    IF TrimSpace(s) = <<>> THEN <<>>
    ELSE LET Accepted(val) == IF val.ok THEN <<val.val>> ELSE <<>>
             Values(parts) ==
               Concat([i \in 1..Len(parts) |-> Accepted(ParseUint(TrimSpace(parts[i]), 0))])
         IN Values(Split(TrimSpace(s), ","))

\* labelArgRE ^label_([0-9A-Fa-f]+)$, and labelRE with the colon.
IsLabelToken(token) ==
    /\ HasPrefix(token, LabelPrefix)
    /\ Len(token) > Len(LabelPrefix)
    /\ \A i \in (Len(LabelPrefix) + 1)..Len(token) : IsHexDigit(token[i])
IsLabelLine(line) ==
    line # <<>> /\ line[Len(line)] = ":" /\ IsLabelToken(Take(line, Len(line) - 1))

\* The name part of typedArgRE: \w+(?:-\w+)*.
RECURSIVE IsTypeName(_)
IsTypeName(s) ==
    LET Named(k) == k > 0 /\ (k = Len(s) \/ (s[k + 1] = "-" /\ IsTypeName(Drop(s, k + 1))))
    IN Named(Span(s, WordChars(s)))

\* typedArgRE ^(\w+(?:-\w+)*):(-?\d+)$.
TypedMatch(token) ==
    LET Match(k, num) ==
          [ok |-> /\ k < Len(token)
                  /\ IsTypeName(Take(token, k))
                  /\ IsDigits(IF num # <<>> /\ num[1] = "-" THEN Tail(num) ELSE num),
           name |-> Take(token, k), num |-> num]
        From(k) == Match(k, Drop(token, k + 1))
    IN From(Span(token, Chars(token) \ {":"}))

ParsedArgument ==
    [argType |-> ArgImmediate, rawValue |-> 0, stringVal |-> <<>>, arrayVal |-> <<>>,
     isLabel |-> FALSE, labelName |-> <<>>]

\* The loop of parseArguments (assemble.go 237-319): the arguments parsed so
\* far, the rest of the line, the error.
RECURSIVE ArgumentLoop(_, _, _)
ArgumentLoop(args, argsStr0, argCount) ==
    LET Arg(argsStr, strLen, close, token, rest, typed, int, float) ==
          IF argsStr0 = <<>> \/ Len(args) >= argCount \/ argsStr = <<>>
          THEN [err |-> "", arguments |-> args]
          ELSE IF argsStr[1] = "\"" /\ strLen > 0
          THEN ArgumentLoop(Append(args, [ParsedArgument EXCEPT
                                            !.argType = ArgString,
                                            !.stringVal = unescapeString(SubSeq(argsStr, 2, strLen - 1))]),
                            Drop(argsStr, strLen), argCount)
          ELSE IF argsStr[1] = "[" /\ close < Len(argsStr)
          THEN ArgumentLoop(Append(args, [ParsedArgument EXCEPT
                                            !.arrayVal = parseArrayValues(SubSeq(argsStr, 2, close))]),
                            Drop(argsStr, close + 1), argCount)
          ELSE IF IsLabelToken(token)
          THEN ArgumentLoop(Append(args, [ParsedArgument EXCEPT !.isLabel = TRUE, !.labelName = token]),
                            rest, argCount)
          ELSE IF typed.ok
          THEN ArgumentLoop(Append(args, [ParsedArgument EXCEPT
                                            !.argType = parseArgType(typed.name),
                                            !.rawValue = ParseInt(typed.num, 10).val]),
                            rest, argCount)
          ELSE IF int.ok
          THEN ArgumentLoop(Append(args, [ParsedArgument EXCEPT !.rawValue = int.val]),
                            rest, argCount)
          ELSE IF float.ok
          THEN ArgumentLoop(Append(args, [ParsedArgument EXCEPT
                                            !.argType = ArgFloat, !.rawValue = float.bits]),
                            rest, argCount)
          ELSE [err |-> "cannot parse argument", arguments |-> args]
        Token(argsStr, token, rest) ==
          Arg(argsStr, StringMatchLen(argsStr, 2), Span(argsStr, Chars(argsStr) \ {"]"}),
              token, rest, TypedMatch(token), ParseInt(token, 0), ParseFloat(token))
        Cut(argsStr, spaceIdx) ==
          Token(argsStr, Take(argsStr, spaceIdx), Drop(argsStr, spaceIdx + 1))
        Trimmed(argsStr) == Cut(argsStr, Span(argsStr, Chars(argsStr) \ {" ", TAB}))
    IN Trimmed(TrimSpace(argsStr0))

\* assemblyParser.parseArguments: no argument for an empty rest of line,
\* else the parsed arguments padded to the argument count.
parseArguments(argsStr, argCount) ==
    LET Padded(r) ==
          IF r.err # "" THEN r
          ELSE [err |-> "",
                arguments |-> [i \in 1..argCount |->
                                 IF i <= Len(r.arguments) THEN r.arguments[i] ELSE ParsedArgument]]
        Parse(trimmed) ==
          IF trimmed = <<>> THEN [err |-> "", arguments |-> <<>>]
          ELSE Padded(ArgumentLoop(<<>>, trimmed, argCount))
    IN Parse(TrimSpace(argsStr))

\* The parser of Assemble (assemble.go 25-37) for a version.
NewParser(version) ==
    [err |-> "", version |-> version, header |-> ZeroHeader, labels |-> <<>>,
     instructions |-> <<>>, table1Offsets |-> <<>>, table2Offsets |-> <<>>,
     table3Offsets |-> <<>>]

\* One line after the header block (assemble.go 177-225) applied to the
\* parser.  labels maps a label name to an instruction index, from 0.
InstructionLine(p, trimmed) ==
    LET instrIndex == Len(p.instructions)
        Add(def, parsed) ==
          IF parsed.err # "" THEN [p EXCEPT !.err = "error parsing arguments"]
          ELSE [p EXCEPT
                  !.table1Offsets = IF def.Opcode = 113 THEN Append(@, instrIndex) ELSE @,
                  !.table2Offsets = IF def.Opcode = 3 THEN Append(@, instrIndex) ELSE @,
                  !.table3Offsets = IF def.Opcode = 143 THEN Append(@, instrIndex) ELSE @,
                  !.instructions = Append(@, [opcode |-> def.Opcode,
                                              arguments |-> parsed.arguments, offset |-> 0])]
        Instr(k, def) ==
          IF def = NoDef THEN [p EXCEPT !.err = "unknown opcode"]
          ELSE Add(def, parseArguments(Drop(trimmed, k), def.ArgCount))
        Mnemonic(k) == Instr(k, LookupLabel(Take(trimmed, k)))
    IN IF trimmed = <<>> \/ HasPrefix(trimmed, <<"/", "/">>) \/ HasPrefix(trimmed, <<"#">>)
       THEN p
       ELSE IF IsLabelLine(trimmed)
       THEN [p EXCEPT !.labels =
               [n \in DOMAIN p.labels \cup {Take(trimmed, Len(trimmed) - 1)} |->
                  IF n = Take(trimmed, Len(trimmed) - 1) THEN instrIndex ELSE p.labels[n]]]
       ELSE Mnemonic(Span(trimmed, Chars(trimmed) \ {" ", TAB, LF, CR}))

\* The scan of parseInstructions from line i.
RECURSIVE InstructionScan(_, _, _, _)
InstructionScan(p, lines, i, pastHeader) ==
    IF i > Len(lines) \/ p.err # "" THEN p
    ELSE LET Line(trimmed) ==
               IF trimmed = HeaderClose THEN InstructionScan(p, lines, i + 1, TRUE)
               ELSE IF ~pastHeader THEN InstructionScan(p, lines, i + 1, pastHeader)
               ELSE InstructionScan(InstructionLine(p, trimmed), lines, i + 1, pastHeader)
         IN Line(TrimSpace(lines[i]))

\* A mutant of parseInstructions: a label is recorded one instruction
\* early, as the index of the last instruction parsed.
parseInstructionsLabelEarly(p, text) ==
    LET Early(q) ==
          [q EXCEPT !.labels = [n \in DOMAIN q.labels |->
                                  IF q.labels[n] > 0 THEN q.labels[n] - 1 ELSE 0]]
    IN Early(InstructionScan(p, ScanLines(text), 1, FALSE))

\* assemblyParser.parseInstructions.
parseInstructions(p, text) == InstructionScan(p, ScanLines(text), 1, FALSE)

\* The argument positions <<i, j>> of the instructions, in instruction order
\* then argument order, from 1.
ArgPositions(instrs) ==
    Concat([i \in 1..Len(instrs) |-> [j \in 1..Len(instrs[i].arguments) |-> <<i, j>>]])

\* p.labelRefs: parseArguments appends one reference per label argument.
LabelRefs(instrs) ==
    Concat([k \in 1..Len(ArgPositions(instrs)) |->
              LET pos == ArgPositions(instrs)[k]
              IN IF instrs[pos[1]].arguments[pos[2]].isLabel THEN <<pos>> ELSE <<>>])

\* japanese.ShiftJIS encoder on the repertoire; ok is false for a character
\* Shift-JIS does not have (U+FFFD).
SjisEncode(s) ==
    LET Byte(code) == IF code < 128 THEN code ELSE code - 65216
    IN [ok |-> \A i \in 1..Len(s) : s[i] # Replacement,
        bytes |-> [i \in 1..Len(s) |-> Byte(Ord(s[i]))]]

\* []byte(s): the UTF-8 bytes of a string.
Utf8(s) ==
    LET Bytes(code) ==
          IF code < 128 THEN <<code>>
          ELSE <<224 + code \div 4096, 128 + ((code \div 64) % 64), 128 + (code % 64)>>
    IN Concat([i \in 1..Len(s) |-> Bytes(Ord(s[i]))])

Repeat(x, n) == [i \in 1..n |-> x]

\* 4 - (currentStringOffset % 4), the offset counting the terminator.
Padding(currentStringOffset) == 4 - (currentStringOffset % 4)

\* A mutant of StringBlob: no padding after a terminator that ends on a
\* multiple of 4.
StringBlobTight(version, stringVal, currentStringOffset) ==
    LET Tight(next) == (4 - (next % 4)) % 4
    IN IF version = FormatSYS5
       THEN LET next == currentStringOffset + (Len(stringVal) + 1) * 2
                Unit(code) == <<255 - (code % 256), 255 - ((code \div 256) % 256)>>
            IN [bytes |-> Concat([i \in 1..Len(stringVal) |-> Unit(Ord(stringVal[i]))])
                            \o Repeat(255, Tight(next) + 2),
                next |-> next + Tight(next)]
       ELSE LET next == currentStringOffset + Len(stringVal) + 1
            IN [bytes |-> [i \in 1..Len(stringVal) |-> 255 - Ord(stringVal[i])]
                            \o Repeat(255, Tight(next) + 1),
                next |-> next + Tight(next)]

\* The blob of one string occurrence at currentStringOffset (assemble.go
\* 353-393): the bytes written and the offset after it.
StringBlob(version, stringVal, currentStringOffset) ==
    IF version = FormatSYS5
    THEN LET next == currentStringOffset + (Len(stringVal) + 1) * 2
             Unit(code) == <<255 - (code % 256), 255 - ((code \div 256) % 256)>>
         IN [bytes |-> Concat([i \in 1..Len(stringVal) |-> Unit(Ord(stringVal[i]))])
                         \o Repeat(255, Padding(next) + 2),
             next |-> next + Padding(next)]
    ELSE LET Blob(sjisBytes) ==
               LET next == currentStringOffset + Len(sjisBytes) + 1
               IN [bytes |-> [i \in 1..Len(sjisBytes) |-> 255 - sjisBytes[i]]
                               \o Repeat(255, Padding(next) + 1),
                   next |-> next + Padding(next)]
             Encoded(sjis) == IF sjis.ok THEN sjis.bytes ELSE Utf8(stringVal)
         IN Blob(Encoded(SjisEncode(stringVal)))

\* Instruction offsets of build (assemble.go 333-337): each instruction set
\* at the running offset.
RECURSIVE PlaceInstructions(_, _)
PlaceInstructions(instrs, offset) ==
    IF instrs = <<>> THEN <<>>
    ELSE <<[instrs[1] EXCEPT !.offset = offset]>>
           \o PlaceInstructions(Tail(instrs), offset + 4 + Len(instrs[1].arguments) * 8)

\* The string loop of build (assemble.go 344-396) from position k on.
RECURSIVE StringLayout(_, _, _, _, _)
StringLayout(instrs, version, k, cur, acc) ==
    IF k > Len(ArgPositions(instrs)) THEN [acc EXCEPT !.currentStringOffset = cur]
    ELSE LET pos == ArgPositions(instrs)[k]
             arg == instrs[pos[1]].arguments[pos[2]]
             Lay(blob) ==
               StringLayout(instrs, version, k + 1, blob.next,
                            [acc EXCEPT !.footerData = @ \o blob.bytes,
                                        !.stringOffsets = Append(@, <<pos, cur>>)])
         IN IF arg.argType = ArgString /\ arg.stringVal # <<>>
            THEN Lay(StringBlob(version, arg.stringVal, cur))
            ELSE StringLayout(instrs, version, k + 1, cur, acc)

\* The array loop of build (assemble.go 399-420) from position k on;
\* currentArrayOffset counts 4-byte units from the end of the header.
RECURSIVE ArrayLayout(_, _, _, _, _)
ArrayLayout(instrs, headerLen, k, currentArrayOffset, acc) ==
    IF k > Len(ArgPositions(instrs)) THEN acc
    ELSE LET pos == ArgPositions(instrs)[k]
             arg == instrs[pos[1]].arguments[pos[2]]
         IN IF Len(arg.arrayVal) > 0
            THEN ArrayLayout(instrs, headerLen, k + 1, currentArrayOffset + 1 + Len(arg.arrayVal),
                             [acc EXCEPT
                                !.footerData = @ \o PutU32(Len(arg.arrayVal))
                                                 \o Concat([i \in 1..Len(arg.arrayVal) |-> PutU32(arg.arrayVal[i])]),
                                !.arrayOffsets = Append(@, <<pos, headerLen + currentArrayOffset * 4>>)])
            ELSE ArrayLayout(instrs, headerLen, k + 1, currentArrayOffset, acc)

\* A mutant of TableEntry: the byte distance from the end of the header.
TableEntryBytes(instrOffset, headerLen) == instrOffset - headerLen

\* An entry of a table (assemble.go 427, 435, 443).
TableEntry(instrOffset, headerLen) == (instrOffset - headerLen) \div 4

\* The bytes of a table: one entry per recorded instruction index.
TableBytes(instrs, indexes, headerLen) ==
    Concat([i \in 1..Len(indexes) |-> PutU32(TableEntry(instrs[indexes[i] + 1].offset, headerLen))])

\* The offset recorded for an argument position in a list of <<pos, offset>>.
OffsetAt(list, pos) == list[CHOOSE i \in 1..Len(list) : list[i][1] = pos][2]

\* build: the instructions are placed, the strings laid out, then the
\* arrays, then the tables; the label references are resolved and the file
\* written.
build(p) ==
    LET headerLen == GetLength(p.header)
        InstrEnd(instrs) ==
          IF instrs = <<>> THEN headerLen
          ELSE instrs[Len(instrs)].offset + 4 + Len(instrs[Len(instrs)].arguments) * 8
        Write(header, resolved, arrs, tables) ==
          [err |-> "", fault |-> FALSE, Header |-> header, instructions |-> resolved,
           stringOffsets |-> arrs.stringOffsets, arrayOffsets |-> arrs.arrayOffsets,
           Data |-> WriteHeader(header)
                      \o Concat([i \in 1..Len(resolved) |->
                                   PutU32(resolved[i].opcode)
                                     \o Concat([j \in 1..Len(resolved[i].arguments) |->
                                                  PutU32(resolved[i].arguments[j].argType)
                                                    \o PutU32(resolved[i].arguments[j].rawValue)])])
                      \o arrs.footerData \o tables[1] \o tables[2] \o tables[3]]
        Resolve(instrs, arrs, tables, refs) ==
          LET table1Start == InstrEnd(instrs) + Len(arrs.footerData)
              table2Start == table1Start + Len(tables[1])
              table3Start == table2Start + Len(tables[2])
              name(k) == instrs[refs[k][1]].arguments[refs[k][2]].labelName
              bad == {k \in 1..Len(refs) :
                        IF name(k) \in DOMAIN p.labels THEN p.labels[name(k)] >= Len(instrs) ELSE TRUE}
              firstBad == CHOOSE k \in bad : \A m \in bad : k <= m
          IN IF bad # {} /\ name(firstBad) \notin DOMAIN p.labels
             THEN [err |-> "label not found", fault |-> FALSE]
             ELSE IF bad # {} THEN [err |-> "", fault |-> TRUE]
             ELSE Write([p.header EXCEPT
                           !.Table1Length = Len(p.table1Offsets),
                           !.Table1Offset = (table1Start - headerLen) \div 4,
                           !.Table2Length = Len(p.table2Offsets),
                           !.Table2Offset = (table2Start - headerLen) \div 4,
                           !.Table3Length = Len(p.table3Offsets),
                           !.Table3Offset = (table3Start - headerLen) \div 4],
                        [i \in 1..Len(instrs) |->
                           [instrs[i] EXCEPT !.arguments =
                              [j \in 1..Len(instrs[i].arguments) |->
                                 LET arg == instrs[i].arguments[j]
                                 IN IF Len(arg.arrayVal) > 0
                                    THEN [arg EXCEPT !.rawValue =
                                            (OffsetAt(arrs.arrayOffsets, <<i, j>>) - headerLen) \div 4]
                                    ELSE IF arg.argType = ArgString /\ arg.stringVal # <<>>
                                    THEN [arg EXCEPT !.rawValue =
                                            (OffsetAt(arrs.stringOffsets, <<i, j>>) - headerLen) \div 4]
                                    ELSE IF arg.isLabel
                                    THEN [arg EXCEPT !.rawValue =
                                            (instrs[p.labels[arg.labelName] + 1].offset - headerLen) \div 4]
                                    ELSE arg]]],
                        arrs, tables)
        LayTables(instrs, arrs) ==
          Resolve(instrs, arrs,
                  <<TableBytes(instrs, p.table1Offsets, headerLen),
                    TableBytes(instrs, p.table2Offsets, headerLen),
                    TableBytes(instrs, p.table3Offsets, headerLen)>>,
                  LabelRefs(instrs))
        LayArrays(instrs, strs) ==
          LayTables(instrs,
                    ArrayLayout(instrs, headerLen, 1, (strs.currentStringOffset - headerLen) \div 4, strs))
        LayStrings(instrs) ==
          LayArrays(instrs,
                    StringLayout(instrs, p.version, 1, InstrEnd(instrs),
                                 [footerData |-> <<>>, stringOffsets |-> <<>>, arrayOffsets |-> <<>>,
                                  currentStringOffset |-> InstrEnd(instrs)]))
    IN LayStrings(PlaceInstructions(p.instructions, headerLen))

\* Assemble.
Assemble(text, version) ==
    LET Build(p) == IF p.err # "" THEN [err |-> p.err, fault |-> FALSE] ELSE build(p)
    IN Build(parseInstructions(parseHeader(NewParser(version), text), text))

(***************************************************************************)
(* BIN files.  A file is described by its version, signature, six counters *)
(* and a program: a list of instructions whose arguments are a raw value,  *)
(* a string, an array, or a jump to the instruction of an index.  The      *)
(* bytes follow the layout Disassemble reads and build writes: header,     *)
(* instructions, one blob per string occurrence (StringBlob's terminator   *)
(* and padding, also for the empty string), arrays, tables.                *)
(***************************************************************************)
Raw(type, raw) == [kind |-> "raw", Type |-> type, raw |-> raw]
StrArg(s) == [kind |-> "str", Type |-> ArgString, str |-> s]
ArrArg(a) == [kind |-> "arr", Type |-> ArgImmediate, arr |-> a]
Jump(k) == [kind |-> "jump", Type |-> ArgImmediate, target |-> k]
Ins(opcode, args) == [opcode |-> opcode, args |-> args]

\* The positions <<i, j>> of the arguments of a kind, in file order.
KindPositions(prog, kind) ==
    Concat([i \in 1..Len(prog) |->
              Concat([j \in 1..Len(prog[i].args) |->
                        IF prog[i].args[j].kind = kind THEN <<<<i, j>>>> ELSE <<>>])])

\* The byte offset of instruction i of a program (from 1; Len + 1 is the end).
RECURSIVE InstrOffset(_, _, _)
InstrOffset(prog, i, headerLen) ==
    IF i = 1 THEN headerLen
    ELSE InstrOffset(prog, i - 1, headerLen) + 4 + 8 * Len(prog[i - 1].args)

\* The blobs of the strings from position k on, the first at offset cur.
RECURSIVE FileStrings(_, _, _, _, _)
FileStrings(prog, version, k, cur, acc) ==
    IF k > Len(KindPositions(prog, "str")) THEN [acc EXCEPT !.next = cur]
    ELSE LET pos  == KindPositions(prog, "str")[k]
             blob == StringBlob(version, prog[pos[1]].args[pos[2]].str, cur)
         IN FileStrings(prog, version, k + 1, blob.next,
                        [acc EXCEPT !.bytes = @ \o blob.bytes, !.at = Append(@, <<pos, cur>>)])

\* The arrays from position k on, the first at offset cur.
RECURSIVE FileArrays(_, _, _, _)
FileArrays(prog, k, cur, acc) ==
    IF k > Len(KindPositions(prog, "arr")) THEN [acc EXCEPT !.next = cur]
    ELSE LET pos == KindPositions(prog, "arr")[k]
             arr == prog[pos[1]].args[pos[2]].arr
         IN FileArrays(prog, k + 1, cur + 4 + 4 * Len(arr),
                       [acc EXCEPT !.bytes = @ \o PutU32(Len(arr))
                                               \o Concat([i \in 1..Len(arr) |-> PutU32(arr[i])]),
                                   !.at = Append(@, <<pos, cur>>)])

\* The table of an opcode: the offsets of its instructions in 4-byte units.
FileTable(prog, opcode, headerLen) ==
    Concat([i \in 1..Len(prog) |->
              IF prog[i].opcode = opcode
              THEN <<(InstrOffset(prog, i, headerLen) - headerLen) \div 4>> ELSE <<>>])

\* The bytes of a file.
FileBytes(version, signature, counters, prog) ==
    LET headerLen == IF version = FormatSYS5 THEN SYS5HeaderSize ELSE SYS4HeaderSize
        instrEnd  == InstrOffset(prog, Len(prog) + 1, headerLen)
        strs == FileStrings(prog, version, 1, instrEnd, [bytes |-> <<>>, at |-> <<>>, next |-> instrEnd])
        arrs == FileArrays(prog, 1, strs.next, [bytes |-> <<>>, at |-> <<>>, next |-> strs.next])
        t1 == FileTable(prog, 113, headerLen)
        t2 == FileTable(prog, 3, headerLen)
        t3 == FileTable(prog, 143, headerLen)
        rawOf(i, j) ==
          LET a == prog[i].args[j]
          IN IF a.kind = "raw" THEN a.raw
             ELSE IF a.kind = "jump" THEN (InstrOffset(prog, a.target, headerLen) - headerLen) \div 4
             ELSE IF a.kind = "str" THEN (OffsetAt(strs.at, <<i, j>>) - headerLen) \div 4
             ELSE (OffsetAt(arrs.at, <<i, j>>) - headerLen) \div 4
        units(x) == PutU32((x - headerLen) \div 4)
    IN (IF version = FormatSYS5 THEN encodeUTF16LE(signature)
        ELSE [i \in 1..8 |-> Ord(signature[i])])
         \o Concat([i \in 1..6 |-> PutU32(counters[i])]) \o PutU32(28)
         \o PutU32(Len(t1)) \o units(arrs.next)
         \o PutU32(Len(t2)) \o units(arrs.next + 4 * Len(t1))
         \o PutU32(Len(t3)) \o units(arrs.next + 4 * Len(t1) + 4 * Len(t2))
         \o Concat([i \in 1..Len(prog) |->
                      PutU32(prog[i].opcode)
                        \o Concat([j \in 1..Len(prog[i].args) |->
                                     PutU32(prog[i].args[j].Type) \o PutU32(rawOf(i, j))])])
         \o strs.bytes \o arrs.bytes
         \o Concat([i \in 1..Len(t1) |-> PutU32(t1[i])])
         \o Concat([i \in 1..Len(t2) |-> PutU32(t2[i])])
         \o Concat([i \in 1..Len(t3) |-> PutU32(t3[i])])

(***************************************************************************)
(* SpecBin: a file is disassembled, the script rendered, the text          *)
(* assembled.  The files are the programs made of a short prefix of plain  *)
(* instructions, one instruction out of OperandMenu, and an optional exit, *)
(* in both versions.                                                       *)
(***************************************************************************)
MaxPrefix == 1
PrefixMenu ==
    {Ins(255, <<>>), Ins(113, <<>>), Ins(3, <<StrArg(<<"a">>)>>),
     Ins(140, <<Raw(ArgImmediate, 1000)>>)}
TypeTags == {TypeNames[i][1] : i \in 1..Len(TypeNames)}
StringMenu ==
    {<<>>, <<"a">>, <<"a", "b">>, <<"a", "b", "c">>, <<"a", " ", "b">>, <<Kana>>, <<"\"">>, <<"\\", "n">>, <<LF>>, <<"\\">>}
OperandMenu ==
    {Ins(3, <<Raw(t, 5)>>) : t \in TypeTags \cup {7}}
      \cup {Ins(3, <<Raw(ArgImmediate, 0 - 1)>>), Ins(3, <<Raw(ArgImmediate, MaxInt32)>>)}
      \cup {Ins(143, <<StrArg(s)>>) : s \in StringMenu}
      \cup {Ins(100, <<Raw(9, 1), ArrArg(a)>>) : a \in {<<>>, <<5>>, <<5, 0 - 1>>}}
      \cup {Ins(140, <<Jump(k)>>) : k \in 1..(MaxPrefix + 2)}
      \cup {Ins(140, <<Raw(t, 1)>>) : t \in {ArgImmediate, 9}}
      \cup {Ins(140, <<Raw(ArgImmediate, 1000)>>)}
Programs ==
    {prefix \o <<x>> \o suffix :
        prefix \in SeqsUpTo(PrefixMenu, MaxPrefix), x \in OperandMenu,
        suffix \in {<<>>, <<Ins(255, <<>>)>>}}
\* A jump of a program targets one of its instructions.
WellFormed(prog) ==
    \A i \in 1..Len(prog) : \A j \in 1..Len(prog[i].args) :
        prog[i].args[j].kind = "jump" => prog[i].args[j].target <= Len(prog)
Signatures == {<<FormatSYS5, <<"S", "Y", "S", "5", "5", "0", "1", " ">>>>, <<FormatSYS4, <<"S", "Y", "S", "4", "4", "1", "5", "0">>>>}
Counters == <<1, 2, 30, 400, 0, 0 - 1>>
BinFiles ==
    {FileBytes(sig[1], sig[2], Counters, prog) :
        sig \in Signatures, prog \in {q \in Programs : WellFormed(q)}}

InitBin ==
    /\ binFile \in BinFiles
    /\ binPc = "file"
    /\ script = Idle /\ binText = <<>> /\ asm = Idle
    /\ IdleLzss /\ IdleStream /\ IdleCalls /\ IdleAgf /\ IdleAlf /\ IdleAsm /\ IdlePack
    /\ IdlePal

\* Disassemble(data) on a file it accepts.
DisassembleFile ==
    /\ binPc = "file"
    /\ \E s \in {Disassemble(binFile)} : s.err = "" /\ script' = s
    /\ binPc' = "script"
    /\ UNCHANGED <<binFile, binText, asm, notBin>>

\* script.ToText().
RenderText ==
    /\ binPc = "script"
    /\ binText' = ToText(script)
    /\ binPc' = "text"
    /\ UNCHANGED <<binFile, script, asm, notBin>>

\* Assemble(script.ToText(), script.Header.Version), as VerifyRoundTrip calls it.
AssembleText ==
    /\ binPc = "text"
    /\ asm' = Assemble(binText, script.Header.Version)
    /\ binPc' = "assembled"
    /\ UNCHANGED <<binFile, script, binText, notBin>>

NextBin == DisassembleFile \/ RenderText \/ AssembleText

SpecBin == InitBin /\ [][NextBin]_vars

\* C2: the file assembled from the text of a disassembled file is the file.
RoundTripBin ==
    binPc = "assembled" => asm.err = "" /\ ~asm.fault /\ asm.Data = binFile

\* The targets of the arguments of a script that satisfy a condition on
\* the instruction and the argument: header length + raw value * 4.
ScriptStarts == {script.Instructions[i].Offset : i \in 1..Len(script.Instructions)}
ScriptArgs ==
    UNION {{<<i, j>> : j \in 1..Len(script.Instructions[i].Arguments)} :
             i \in 1..Len(script.Instructions)}
TargetOf(pos) ==
    GetLength(script.Header) + Scale4(script.Instructions[pos[1]].Arguments[pos[2]].RawValue)

Disassembled == binPc \in {"script", "text", "assembled"}

\* C9: in a disassembled script every argument marked as a label and every
\* key of Labels is the start offset of an instruction of the script, the
\* name is label_%08X of header length + raw value * 4, and an argument of
\* a control-flow instruction whose target is no instruction start is not
\* marked and carries no name.
LabelsAreInstructionStarts ==
    Disassembled =>
      /\ \A pos \in ScriptArgs :
           LET arg == script.Instructions[pos[1]].Arguments[pos[2]]
           IN /\ arg.IsLabel =>
                   /\ TargetOf(pos) \in ScriptStarts
                   /\ arg.LabelName = LabelPrefix \o FormatHex(TargetOf(pos), 8)
              /\ (IsControlFlow(script.Instructions[pos[1]].Opcode) /\ TargetOf(pos) \notin ScriptStarts)
                   => ~arg.IsLabel /\ arg.LabelName = <<>>
      /\ \A off \in DOMAIN script.Labels :
           /\ off \in ScriptStarts
           /\ script.Labels[off] = LabelPrefix \o FormatHex(off, 8)

\* C9 witness: a script with a jump marked as a label and a jump that stays
\* raw.
LabelsAreInstructionStartsWitness ==
    /\ Disassembled
    /\ DOMAIN script.Labels # {}
    /\ \E pos \in ScriptArgs : script.Instructions[pos[1]].Arguments[pos[2]].IsLabel
    /\ \E pos \in ScriptArgs :
         /\ IsControlFlow(script.Instructions[pos[1]].Opcode)
         /\ ~script.Instructions[pos[1]].Arguments[pos[2]].IsLabel

\* The instructions of an assembled file with an opcode, in order, as
\* 4-byte units from the end of the header.
RECURSIVE UnitsOf(_, _, _)
UnitsOf(instrs, opcode, headerLen) ==
    IF instrs = <<>> THEN <<>>
    ELSE (IF instrs[1].opcode = opcode THEN <<(instrs[1].offset - headerLen) \div 4>> ELSE <<>>)
           \o UnitsOf(Tail(instrs), opcode, headerLen)
\* The uint32 entries of a file from a 0-based offset.
EntriesAt(data, offset, length) == [i \in 1..length |-> ReadU32(data, offset + (i - 1) * 4)]
Assembled == binPc = "assembled" /\ asm.err = "" /\ ~asm.fault

\* C10: in an assembled file every instruction offset is a multiple of 4;
\* T1, T2, T3 follow one another after every string blob and array and end
\* the file; Ti lists, in instruction order, (offset - header length) / 4 of
\* the instructions of opcode 0x71, 0x03, 0x8F; the header holds each count
\* and each (table start - header length) / 4.
TablesFollowInstructions ==
    Assembled =>
      LET h == ReadHeader(asm.Data)
          headerLen == GetLength(h)
          t1 == headerLen + 4 * h.Table1Offset
          t2 == headerLen + 4 * h.Table2Offset
          t3 == headerLen + 4 * h.Table3Offset
      IN /\ \A i \in 1..Len(asm.instructions) : asm.instructions[i].offset % 4 = 0
         /\ h.Table1Length = Len(UnitsOf(asm.instructions, 113, headerLen))
         /\ h.Table2Length = Len(UnitsOf(asm.instructions, 3, headerLen))
         /\ h.Table3Length = Len(UnitsOf(asm.instructions, 143, headerLen))
         /\ t2 = t1 + 4 * h.Table1Length
         /\ t3 = t2 + 4 * h.Table2Length
         /\ Len(asm.Data) = t3 + 4 * h.Table3Length
         /\ \A k \in 1..Len(asm.stringOffsets) : asm.stringOffsets[k][2] < t1
         /\ \A k \in 1..Len(asm.arrayOffsets) : asm.arrayOffsets[k][2] < t1
         /\ \A i \in 1..Len(asm.instructions) : asm.instructions[i].offset < t1
         /\ EntriesAt(asm.Data, t1, h.Table1Length) = UnitsOf(asm.instructions, 113, headerLen)
         /\ EntriesAt(asm.Data, t2, h.Table2Length) = UnitsOf(asm.instructions, 3, headerLen)
         /\ EntriesAt(asm.Data, t3, h.Table3Length) = UnitsOf(asm.instructions, 143, headerLen)

\* C10 witness: an assembled file with a string blob, an entry in T2 and an
\* entry in T3.
TablesFollowInstructionsWitness ==
    /\ Assembled
    /\ asm.stringOffsets # <<>>
    /\ asm.Header.Table2Length > 0
    /\ asm.Header.Table3Length > 0

\* The arguments of the script that are immediates: type tag 0, not a
\* label, not an array.
ImmediateArgs ==
    {pos \in ScriptArgs :
       LET arg == script.Instructions[pos[1]].Arguments[pos[2]]
       IN arg.Type = ArgImmediate /\ ~arg.IsLabel /\ Len(arg.DataArray) = 0}
\* The signed decimal reading of a 32-bit value above -2^31.
SignedDecimal(v) == IF v < 0 THEN <<"-">> \o FormatDec(0 - v) ELSE FormatDec(v)
\* The words of the line of ToText for instruction i: the mnemonic and the
\* arguments, the argument at pos rendered as the signed decimal of its
\* raw value.
SignedLine(pos) ==
    LET instr == script.Instructions[pos[1]]
    IN <<" ", " ", " ", " ">> \o LookupOpcode(instr.Opcode).Label
         \o Concat([j \in 1..Len(instr.Arguments) |->
                      <<" ">> \o (IF j = pos[2] THEN SignedDecimal(instr.Arguments[j].RawValue)
                                  ELSE formatArgument(instr.Arguments[j]))])
TextLines == {ScanLines(binText)[k] : k \in 1..Len(ScanLines(binText))}
ImmediatesComeBack ==
    (binPc = "assembled") =>
        /\ asm.err = "" /\ ~asm.fault
        /\ \A pos \in ImmediateArgs :
             asm.instructions[pos[1]].arguments[pos[2]].rawValue
               = script.Instructions[pos[1]].Arguments[pos[2]].RawValue

\* C23 (as stated, refuted): ToText writes every immediate argument as the
\* signed decimal reading of its raw value, and Assemble reads the text
\* back to the same raw value.
ImmediatesAreSignedDecimal ==
    /\ binPc \in {"text", "assembled"} => \A pos \in ImmediateArgs : SignedLine(pos) \in TextLines
    /\ ImmediatesComeBack

\* The string arguments of the script that ToText writes as a literal.
LiteralArgs ==
    {pos \in ScriptArgs :
       LET arg == script.Instructions[pos[1]].Arguments[pos[2]]
       IN ~arg.IsLabel /\ arg.Type = ArgString /\ arg.StringVal # <<>>}

\* C24 (as stated, refuted): Assemble reads the literal ToText writes for a
\* non-empty string as one string argument whose unescaped value is the
\* string.
EscapingInverts ==
    (binPc = "assembled") =>
        /\ asm.err = "" /\ ~asm.fault
        /\ \A pos \in LiteralArgs :
             /\ Len(asm.instructions[pos[1]].arguments) = Len(script.Instructions[pos[1]].Arguments)
             /\ asm.instructions[pos[1]].arguments[pos[2]].argType = ArgString
             /\ asm.instructions[pos[1]].arguments[pos[2]].stringVal
                  = script.Instructions[pos[1]].Arguments[pos[2]].StringVal

(***************************************************************************)
(* SpecAsm: Assemble of a hand-written text, one call of Assemble's three  *)
(* per step (parseHeader, parseInstructions, build).  The text is the      *)
(* header block of ToText followed by up to MaxLines lines out of          *)
(* LineMenu; a line remembers what its author wrote: the string literal,   *)
(* the type name, the label.                                               *)
(***************************************************************************)
MaxLines == 2
Mnemonic(opcode) == <<" ", " ", " ", " ">> \o LookupOpcode(opcode).Label
StrLine(opcode, s) ==
    [kind |-> "str", chars |-> Mnemonic(opcode) \o <<" ", "\"">> \o s \o <<"\"", LF>>, str |-> s]
TypedLine(name, digits) ==
    [kind |-> "typed", chars |-> Mnemonic(3) \o <<" ">> \o name \o <<":">> \o digits \o <<LF>>,
     name |-> name]
JumpLine(label) ==
    [kind |-> "jump", chars |-> Mnemonic(140) \o <<" ">> \o label \o <<LF>>, label |-> label]
LabelLine(label) == [kind |-> "label", chars |-> label \o <<":", LF>>, label |-> label]
ExitLine == [kind |-> "plain", chars |-> Mnemonic(255) \o <<LF>>]
LabelZero == LabelPrefix \o <<"0">>
LabelOne == LabelPrefix \o <<"1">>
LineMenu ==
    {StrLine(143, <<"a">>), StrLine(3, <<"a">>), StrLine(143, <<"a", "b">>), StrLine(143, <<>>),
     StrLine(143, <<"a", "b", "c">>),
     TypedLine(<<"l", "o", "c", "a", "l", "-", "i", "n", "t">>, <<"5">>),
     TypedLine(<<"b", "o", "g", "u", "s">>, <<"5">>),
     JumpLine(LabelZero), JumpLine(LabelOne), LabelLine(LabelZero), ExitLine}
\* A first line of this kind stands for a text without a header block.
NoHeaderLine == [kind |-> "noheader", chars |-> <<>>]
\* The text of the lines under the header block of a version, or of the
\* lines alone.
SourceText(version, lines) ==
    IF lines # <<>> /\ lines[1].kind = "noheader"
    THEN Concat([i \in 1..Len(lines) |-> lines[i].chars])
    ELSE
    ToText([Header |-> [Signature |-> (CHOOSE sig \in Signatures : sig[1] = version)[2],
                        LocalInteger1 |-> Counters[1], LocalFloats |-> Counters[2],
                        LocalStrings1 |-> Counters[3], LocalInteger2 |-> Counters[4],
                        UnknownData |-> Counters[5], LocalStrings2 |-> Counters[6]],
            Instructions |-> <<>>, Labels |-> <<>>])
      \o Concat([i \in 1..Len(lines) |-> lines[i].chars])

InitAsm ==
    /\ asmSource \in SeqsUpTo(LineMenu, MaxLines)
    /\ asmVersion \in {FormatSYS4, FormatSYS5}
    /\ asmPc = "source"
    /\ asmParser = Idle /\ asmResult = Idle
    /\ IdleLzss /\ IdleStream /\ IdleCalls /\ IdleBin /\ IdleAgf /\ IdleAlf /\ IdlePack
    /\ IdlePal

\* Assemble up to its first call: NewParser(version), p.parseHeader(text).
ParseHeaderText ==
    /\ asmPc = "source"
    /\ \E p \in {parseHeader(NewParser(asmVersion), SourceText(asmVersion, asmSource))} :
         /\ asmParser' = p
         /\ asmPc' = IF p.err # "" THEN "failed" ELSE "header"
         /\ asmResult' = IF p.err # "" THEN [err |-> p.err, fault |-> FALSE] ELSE asmResult
    /\ UNCHANGED <<asmSource, asmVersion, notAsm>>

\* Assemble's second call: p.parseInstructions(text).
ParseInstructionsText ==
    /\ asmPc = "header"
    /\ \E p \in {parseInstructions(asmParser, SourceText(asmVersion, asmSource))} :
         /\ asmParser' = p
         /\ asmPc' = IF p.err # "" THEN "failed" ELSE "instructions"
         /\ asmResult' = IF p.err # "" THEN [err |-> p.err, fault |-> FALSE] ELSE asmResult
    /\ UNCHANGED <<asmSource, asmVersion, notAsm>>

\* Assemble's third call, whose result it returns: p.build().
BuildFile ==
    /\ asmPc = "instructions"
    /\ asmResult' = build(asmParser)
    /\ asmPc' = "built"
    /\ UNCHANGED <<asmSource, asmVersion, asmParser, notAsm>>

NextAsm == ParseHeaderText \/ ParseInstructionsText \/ BuildFile

SpecAsm == InitAsm /\ [][NextAsm]_vars

\* Assemble has returned; it has returned a file.
AsmReturned == asmPc \in {"built", "failed"}
AsmBuilt == asmPc = "built" /\ asmResult.err = "" /\ ~asmResult.fault
\* The instruction lines of the text, in order, and those with a string
\* literal.
SourceInstructions == SelectSeq(asmSource, LAMBDA l : l.kind # "label")
LiteralLines == {i \in 1..Len(SourceInstructions) : SourceInstructions[i].kind = "str"}
\* The file offset the first argument of an instruction of the file points
\* to: header length + raw value * 4, the raw value read from the file.
BlobOf(i) ==
    GetLength(asmResult.Header)
      + Scale4(ReadU32(asmResult.Data, asmResult.instructions[i].offset + 8))

\* The offset after the last instruction of the file.
InstructionsEnd ==
    LET last == asmResult.instructions[Len(asmResult.instructions)]
    IN last.offset + 4 + Len(last.arguments) * 8

\* C11: in an assembled file every string literal of the text has a blob of
\* its own after the instructions: its argument's raw value is (blob offset
\* - header length) / 4, the blob decodes to the literal, and the blobs of
\* two literals, equal or not, lie in the order of the literals.
EveryLiteralHasItsBlob ==
    AsmBuilt =>
      /\ \A i \in LiteralLines :
           /\ BlobOf(i) >= InstructionsEnd
           /\ decodeString(asmResult.Data, BlobOf(i), asmVersion)
                = [err |-> "", str |-> SourceInstructions[i].str]
      /\ \A i, k \in LiteralLines : i < k => BlobOf(i) < BlobOf(k)

\* The names parseArgType knows: the names of the type tags.
KnownTypeNames == {TypeNames[i][2] : i \in 1..Len(TypeNames)}
UnknownTypeLines == {i \in 1..Len(asmSource) :
                       asmSource[i].kind = "typed" /\ asmSource[i].name \notin KnownTypeNames}

\* C17: Assemble of a text with an argument name:integer whose name is no
\* type name returns an error and no file.
UnknownTypeNameIsRejected ==
    (AsmReturned /\ UnknownTypeLines # {}) =>
        asmResult.err # "" /\ "Data" \notin DOMAIN asmResult

\* The labels the arguments of the text reference, and the labels its
\* label lines define.
ReferencedLabels == {asmSource[i].label : i \in {k \in 1..Len(asmSource) : asmSource[k].kind = "jump"}}
DefinedLabels == {asmSource[i].label : i \in {k \in 1..Len(asmSource) : asmSource[k].kind = "label"}}

\* C18: Assemble of a text that references a label no line defines returns
\* an error and no file; when every referenced label is defined, label
\* resolution does not fail: Assemble neither returns "label not found" nor
\* stops in a run-time panic.
LabelsResolveWhenDefined ==
    AsmReturned =>
      /\ ~(ReferencedLabels \subseteq DefinedLabels) =>
             asmResult.err # "" /\ "Data" \notin DOMAIN asmResult
      /\ ReferencedLabels \subseteq DefinedLabels =>
             asmResult.err # "label not found" /\ ~asmResult.fault

\* The literals build writes a blob for, and the extent of the blob of
\* each: from the offset its argument points to up to the blob of the next
\* such literal, or up to the first table (the texts have no arrays).
EmittedLiterals == {i \in LiteralLines : SourceInstructions[i].str # <<>>}
StringsEnd == GetLength(asmResult.Header) + Scale4(asmResult.Header.Table1Offset)
BlobEnd(i) ==
    IF \E k \in EmittedLiterals : k > i
    THEN BlobOf(CHOOSE k \in EmittedLiterals : k > i /\ \A m \in EmittedLiterals : m > i => k <= m)
    ELSE StringsEnd
\* The length of the encoded characters and the terminator: two bytes per
\* code point and terminator in SYS5, one byte per Shift-JIS byte (the
\* literals are ASCII) and terminator in SYS4.
TerminatorLength == IF asmVersion = FormatSYS5 THEN 2 ELSE 1
UnpaddedLength(i) ==
    IF asmVersion = FormatSYS5 THEN 2 * (Len(SourceInstructions[i].str) + 1)
    ELSE Len(SourceInstructions[i].str) + 1
\* The blob starts on a multiple of 4, decodes to the literal, and is 0xFF
\* from its terminator to its end.
BlobIsAlignedAndFilled(i) ==
    /\ BlobOf(i) % 4 = 0
    /\ decodeString(asmResult.Data, BlobOf(i), asmVersion)
         = [err |-> "", str |-> SourceInstructions[i].str]
    /\ \A o \in (BlobOf(i) + UnpaddedLength(i) - TerminatorLength)..(BlobEnd(i) - 1) :
         asmResult.Data[o + 1] = 255

\* C21 (as stated, refuted): the blob of every string literal the assembler
\* emits starts at a 4-aligned offset, is 0xFF from its terminator on, and
\* its size is the smallest multiple of 4 that is at least the unpadded
\* length (terminator included).
BlobSizeIsRoundedUp ==
    AsmBuilt =>
      \A i \in EmittedLiterals :
        /\ BlobIsAlignedAndFilled(i)
        /\ BlobEnd(i) - BlobOf(i) = ((UnpaddedLength(i) + 3) \div 4) * 4

\* C21 (amended): the size of the blob is the smallest multiple of 4 that
\* is greater than the unpadded length: one to four bytes of 0xFF follow
\* the terminator.
BlobSizeIsNextMultiple ==
    AsmBuilt =>
      \A i \in EmittedLiterals :
        /\ BlobIsAlignedAndFilled(i)
        /\ BlobEnd(i) - BlobOf(i) = (UnpaddedLength(i) \div 4 + 1) * 4

\* C21 witness: a file with two blobs, the unpadded length of one a
\* multiple of 4, of the other not.
BlobSizeIsNextMultipleWitness ==
    /\ AsmBuilt
    /\ \E i, k \in EmittedLiterals :
         i < k /\ UnpaddedLength(i) % 4 = 0 /\ UnpaddedLength(k) % 4 # 0

(***************************************************************************)
(* SpecTotal: Assemble of texts of up to MaxText lines that are a jump to  *)
(* label_0, the label line label_0: or exit, in every order (so with the   *)
(* label after the last instruction, and with the label defined twice),    *)
(* and of such texts without a header block, with and without the line     *)
(* ==== that ends a header block.                                          *)
(***************************************************************************)
MaxText == 3
RuleLine == [kind |-> "blank", chars |-> <<"=", "=", "=", "=", LF>>]
TotalLines == {JumpLine(LabelZero), LabelLine(LabelZero), ExitLine}
TotalTexts ==
    SeqsUpTo(TotalLines, MaxText)
      \cup {<<NoHeaderLine>> \o rule \o t :
               rule \in {<<>>, <<RuleLine>>}, t \in SeqsUpTo(TotalLines, MaxText - 1)}

InitTotal ==
    /\ asmSource \in TotalTexts
    /\ asmVersion \in {FormatSYS4, FormatSYS5}
    /\ asmPc = "source"
    /\ asmParser = Idle /\ asmResult = Idle
    /\ IdleLzss /\ IdleStream /\ IdleCalls /\ IdleBin /\ IdleAgf /\ IdleAlf /\ IdlePack
    /\ IdlePal

SpecTotal == InitTotal /\ [][NextAsm]_vars

\* C29 (as stated, refuted): whatever the text, Assemble returns a file or
\* an error and does not fault with an index out of range.
AssembleIsTotal ==
    AsmReturned =>
        /\ ~asmResult.fault
        /\ asmResult.err = "" => Len(asmResult.Data) >= GetLength(asmResult.Header)

(***************************************************************************)
(* SpecLabels: Assemble of texts with one jump and the label it names.     *)
(* The label is defined after or before the jump, up to MaxFill            *)
(* instructions stand before the jump and between the jump and the label,  *)
(* and comment lines or blank lines stand between the label line and the   *)
(* instruction that follows it.  LabelHex is a name as ToText writes it,   *)
(* for the offset 0x3C, which is where the first instruction of a SYS4     *)
(* file lies.                                                              *)
(***************************************************************************)
MaxFill == 1
LabelHex == LabelPrefix \o <<"0", "0", "0", "0", "0", "0", "3", "C">>
SlashLine == [kind |-> "blank", chars |-> <<"/", "/", " ", "c", LF>>]
HashLine == [kind |-> "blank", chars |-> <<"#", "c", LF>>]
BlankLine == [kind |-> "blank", chars |-> <<" ", LF>>]
Gaps == {<<>>, <<SlashLine>>, <<HashLine, BlankLine>>}
Fillers == {ExitLine, StrLine(3, <<"a">>)}
Targets == {ExitLine, StrLine(143, <<"a">>)}
LabelTexts ==
    {pre \o <<JumpLine(l)>> \o mid \o <<LabelLine(l)>> \o gap \o <<t>> :
        pre \in SeqsUpTo(Fillers, MaxFill), mid \in SeqsUpTo(Fillers, MaxFill),
        gap \in Gaps, l \in {LabelZero, LabelHex}, t \in Targets}
      \cup {pre \o <<LabelLine(l)>> \o gap \o <<t>> \o mid \o <<JumpLine(l)>> :
               pre \in SeqsUpTo(Fillers, MaxFill), mid \in SeqsUpTo(Fillers, MaxFill),
               gap \in Gaps, l \in {LabelZero, LabelHex}, t \in Targets}

InitLabels ==
    /\ asmSource \in LabelTexts
    /\ asmVersion \in {FormatSYS4, FormatSYS5}
    /\ asmPc = "source"
    /\ asmParser = Idle /\ asmResult = Idle
    /\ IdleLzss /\ IdleStream /\ IdleCalls /\ IdleBin /\ IdleAgf /\ IdleAlf /\ IdlePack
    /\ IdlePal

SpecLabels == InitLabels /\ [][NextAsm]_vars

\* The bytes of the instruction of a line: the opcode, and eight bytes for
\* the argument of a line that has one; and the opcode of a line.
LineSize(l) ==
    CASE l.kind = "plain" -> 4
      [] l.kind \in {"str", "typed", "jump"} -> 12
      [] OTHER -> 0
RECURSIVE SizeOfLines(_)
SizeOfLines(lines) ==
    IF lines = <<>> THEN 0 ELSE LineSize(Head(lines)) + SizeOfLines(Tail(lines))
LineOpcode(l) == CHOOSE opcode \in {3, 140, 143, 255} : HasPrefix(l.chars, Mnemonic(opcode))
\* The lines of a kind, the line that defines a label, and the first
\* instruction line after a line.
LinesOfKind(kind) == {i \in 1..Len(asmSource) : asmSource[i].kind = kind}
DefinitionOf(label) ==
    CHOOSE d \in LinesOfKind("label") : asmSource[d].label = label
FollowingInstruction(d) ==
    CHOOSE i \in (d + 1)..Len(asmSource) :
        /\ LineSize(asmSource[i]) > 0
        /\ \A k \in (d + 1)..(i - 1) : LineSize(asmSource[k]) = 0
\* The raw value of the argument of the jump of line i, read from the file.
JumpRaw(i) ==
    ReadU32(asmResult.Data,
            GetLength(asmResult.Header) + SizeOfLines(Take(asmSource, i - 1)) + 8)

\* C22: the argument of a jump in the assembled file is the offset of the
\* first instruction after the line that defines its label, less the
\* header length, in units of 4, whatever the digits of the label name,
\* whatever instructions stand before the label, and whatever comment or
\* blank lines stand between the label and that instruction; the
\* instruction at that offset is the one written after the label.
LabelsResolveByPosition ==
    AsmBuilt =>
      \A i \in LinesOfKind("jump") :
        /\ Scale4(JumpRaw(i)) = SizeOfLines(Take(asmSource, DefinitionOf(asmSource[i].label)))
        /\ ReadU32(asmResult.Data, GetLength(asmResult.Header) + Scale4(JumpRaw(i)))
             = LineOpcode(asmSource[FollowingInstruction(DefinitionOf(asmSource[i].label))])

\* C22 witness: a jump to the label named for offset 0x3C, defined after an
\* instruction and before a comment line and a blank line, resolved to
\* another offset than 0x3C.
LabelsResolveByPositionWitness ==
    /\ AsmBuilt
    /\ \E i \in LinesOfKind("jump") :
         /\ asmSource[i].label = LabelHex
         /\ GetLength(asmResult.Header) + Scale4(JumpRaw(i)) # 60
         /\ asmSource[DefinitionOf(LabelHex) + 1] = HashLine
         /\ DefinitionOf(LabelHex) > 1

(***************************************************************************)
(* AGF images (pkg/agf).  A reader is the bytes of the file and a 0-based  *)
(* position; a result with err = "panic" is a run-time panic of the Go     *)
(* code (index out of range, negative length, write to a nil map).         *)
(***************************************************************************)
Type24Bit == 1
Type32Bit == 2

PutU16(v) == <<v % 256, (v \div 256) % 256>>
\* Go integer division, which truncates toward zero.
GoDiv(a, b) == IF a >= 0 THEN a \div b ELSE 0 - ((0 - a) \div b)
\* x &^ 3 on a two-complement int.
AndNot3(x) == x - (x % 4)
\* (width*BitCount/8 + 3) &^ 3.
RgbStride(width, bitCount) == AndNot3(GoDiv(width * bitCount, 8) + 3)

\* ReadHeader of the AGF header: only the type is validated.
AgfReadHeader(data) ==
    IF Len(data) < 12 THEN [err |-> "failed to read AGF header"]
    ELSE IF ReadU32(data, 4) \notin {Type24Bit, Type32Bit} THEN [err |-> "unsupported AGF type"]
    ELSE [err |-> "", Signature |-> SubSeq(data, 1, 4), Type |-> ReadU32(data, 4),
          Unknown |-> ReadU32(data, 8)]

\* ReadSectorHeader at a position.
ReadSectorHeader(data, pos) ==
    IF pos + 12 > Len(data) THEN [err |-> "failed to read sector header"]
    ELSE [err |-> "", OriginalLength |-> ReadU32(data, pos),
          OriginalLength2 |-> ReadU32(data, pos + 4), Length |-> ReadU32(data, pos + 8)]

\* SectorHeader.IsCompressed.
IsCompressed(h) == h.Length # h.OriginalLength

\* readSector at a position: the payload, decompressed when the lengths
\* differ, and the position after the sector.
readSector(data, pos) ==
    LET Checked(hdr, decompressed) ==
          IF Len(decompressed) # hdr.OriginalLength
          THEN [err |-> "decompression size mismatch"]
          ELSE [err |-> "", data |-> decompressed, next |-> pos + 12 + hdr.Length]
        Payload(hdr, raw) ==
          IF IsCompressed(hdr) THEN Checked(hdr, Decompress(raw))
          ELSE [err |-> "", data |-> raw, next |-> pos + 12 + hdr.Length]
        Body(hdr) ==
          IF hdr.err # "" THEN [err |-> hdr.err]
          ELSE IF hdr.Length < 0 \/ pos + 12 + hdr.Length > Len(data)
          THEN [err |-> "unexpected EOF"]
          ELSE Payload(hdr, SubSeq(data, pos + 13, pos + 12 + hdr.Length))
    IN Body(ReadSectorHeader(data, pos))

\* The RGBQuads of palette bytes.
Quads(paletteData) ==
    [i \in 1..(Len(paletteData) \div 4) |->
       [Blue |-> paletteData[4 * i - 3], Green |-> paletteData[4 * i - 2],
        Red |-> paletteData[4 * i - 1], Reserved |-> paletteData[4 * i]]]
QuadBytes(palette) ==
    Concat([i \in 1..Len(palette) |->
              <<palette[i].Blue, palette[i].Green, palette[i].Red, palette[i].Reserved>>])

\* The BitmapInfoHeader at a 0-based offset.
InfoHeaderAt(data, offset) ==
    [Size |-> ReadU32(data, offset), Width |-> ReadU32(data, offset + 4),
     Height |-> ReadU32(data, offset + 8), Planes |-> ReadU16(data, offset + 12),
     BitCount |-> ReadU16(data, offset + 14), Compression |-> ReadU32(data, offset + 16),
     SizeImage |-> ReadU32(data, offset + 20), XPelsPerMeter |-> ReadU32(data, offset + 24),
     YPelsPerMeter |-> ReadU32(data, offset + 28), ClrUsed |-> ReadU32(data, offset + 32),
     ClrImportant |-> ReadU32(data, offset + 36)]
InfoHeaderBytes(bmi) ==
    PutU32(bmi.Size) \o PutU32(bmi.Width) \o PutU32(bmi.Height) \o PutU16(bmi.Planes)
      \o PutU16(bmi.BitCount) \o PutU32(bmi.Compression) \o PutU32(bmi.SizeImage)
      \o PutU32(bmi.XPelsPerMeter) \o PutU32(bmi.YPelsPerMeter) \o PutU32(bmi.ClrUsed)
      \o PutU32(bmi.ClrImportant)
\* The BitmapFileHeader at offset 0.
FileHeaderAt(data) ==
    [Type |-> ReadU16(data, 0), Size |-> ReadU32(data, 2), Reserved1 |-> ReadU16(data, 6),
     Reserved2 |-> ReadU16(data, 8), OffsetBits |-> ReadU32(data, 10)]
FileHeaderBytes(bmf) ==
    PutU16(bmf.Type) \o PutU32(bmf.Size) \o PutU16(bmf.Reserved1) \o PutU16(bmf.Reserved2)
      \o PutU32(bmf.OffsetBits)

\* ReadBitmapHeaders: the file header, the info header after a 2-byte gap,
\* the palette (nil when the data ends with the info header).
ReadBitmapHeaders(data) ==
    IF Len(data) < 56 THEN [err |-> "unexpected EOF"]
    ELSE [err |-> "", bmf |-> FileHeaderAt(data), bmi |-> InfoHeaderAt(data, 16),
          palette |-> Quads(Drop(data, 56)), paletteNil |-> Len(data) <= 56]

\* WriteBitmapHeaders.
WriteBitmapHeaders(bmf, bmi, palette) ==
    FileHeaderBytes(bmf) \o <<0, 0>> \o InfoHeaderBytes(bmi) \o QuadBytes(palette)

ACIF == <<65, 67, 73, 70>>
\* ReadAlphaHeader at a position.
ReadAlphaHeader(data, pos) ==
    IF pos + 24 > Len(data) THEN [err |-> "failed to read ACIF header"]
    ELSE IF SubSeq(data, pos + 1, pos + 4) # ACIF THEN [err |-> "invalid ACIF signature"]
    ELSE [err |-> "", Signature |-> SubSeq(data, pos + 1, pos + 4),
          Type |-> ReadU32(data, pos + 4), Unknown |-> ReadU32(data, pos + 8),
          OriginalLength |-> ReadU32(data, pos + 12), Width |-> ReadU32(data, pos + 16),
          Height |-> ReadU32(data, pos + 20)]

\* WriteHeader, WriteSectorHeader, WriteAlphaHeader: binary.Write of the struct.
AgfWriteHeader(hdr) == hdr.Signature \o PutU32(hdr.Type) \o PutU32(hdr.Unknown)
WriteSectorHeader(hdr) ==
    PutU32(hdr.OriginalLength) \o PutU32(hdr.OriginalLength2) \o PutU32(hdr.Length)
WriteAlphaHeader(hdr) ==
    hdr.Signature \o PutU32(hdr.Type) \o PutU32(hdr.Unknown) \o PutU32(hdr.OriginalLength)
      \o PutU32(hdr.Width) \o PutU32(hdr.Height)

\* writeSector: an uncompressed sector.
writeSector(data) ==
    WriteSectorHeader([OriginalLength |-> Len(data), OriginalLength2 |-> Len(data),
                       Length |-> Len(data)]) \o data

\* decodeColorMapWithAlpha: the BGRA bytes, row y of the colour plane with
\* row height - y - 1 of the alpha plane.
decodeColorMapWithAlpha(bmi, encodedData, palette, alphaData) ==
    LET width == bmi.Width
        height == bmi.Height
        rgbStride == RgbStride(width, bmi.BitCount)
        Indexed(palIndex, alpha) ==
          IF palIndex >= Len(palette) THEN <<>>
          ELSE <<palette[palIndex + 1].Blue, palette[palIndex + 1].Green,
                 palette[palIndex + 1].Red, alpha>>
        Pixel(y, x) ==
          IF (height - y - 1) * width + x >= Len(alphaData) THEN <<>>
          ELSE IF bmi.BitCount = 8
          THEN IF y * rgbStride + x >= Len(encodedData) THEN <<>>
               ELSE Indexed(encodedData[y * rgbStride + x + 1],
                            alphaData[(height - y - 1) * width + x + 1])
          ELSE IF y * rgbStride + x * 3 + 2 >= Len(encodedData) THEN <<>>
          ELSE <<encodedData[y * rgbStride + x * 3 + 1], encodedData[y * rgbStride + x * 3 + 2],
                 encodedData[y * rgbStride + x * 3 + 3],
                 alphaData[(height - y - 1) * width + x + 1]>>
        Rows(pixels) ==
          [panic |-> \E k \in 1..Len(pixels) : pixels[k] = <<>>, data |-> Concat(pixels)]
    IN IF width * height * 4 < 0 THEN [panic |-> TRUE, data |-> <<>>]
       ELSE IF height <= 0 \/ width <= 0 THEN [panic |-> FALSE, data |-> Repeat(0, width * height * 4)]
       ELSE Rows([k \in 1..(width * height) |-> Pixel((k - 1) \div width, (k - 1) % width)])

NoAlphaHeader ==
    [err |-> "", Signature |-> <<>>, Type |-> 0, Unknown |-> 0, OriginalLength |-> 0,
     Width |-> 0, Height |-> 0]

\* Unpack.
Unpack(data) ==
    LET Result(hdr, heads, pixelData, alphaHdr, alphaData, decodedData) ==
          [err |-> "", Header |-> hdr, FileHeader |-> heads.bmf, InfoHeader |-> heads.bmi,
           Palette |-> heads.palette, PaletteNil |-> heads.paletteNil, PixelData |-> pixelData,
           AlphaHeader |-> alphaHdr, AlphaData |-> alphaData, DecodedData |-> decodedData]
        Decoded(hdr, heads, pixel, alphaHdr, alpha, decoded) ==
          IF decoded.panic THEN [err |-> "panic"]
          ELSE Result(hdr, heads, pixel.data, alphaHdr, alpha.data, decoded.data)
        Alpha(hdr, heads, pixel, alphaHdr, alpha) ==
          IF alpha.err # "" THEN [err |-> "failed to read alpha sector"]
          ELSE Decoded(hdr, heads, pixel, alphaHdr, alpha,
                       decodeColorMapWithAlpha(heads.bmi, pixel.data, heads.palette, alpha.data))
        AlphaHdr(hdr, heads, pixel, alphaHdr) ==
          IF alphaHdr.err # "" THEN [err |-> "failed to read alpha header"]
          ELSE Alpha(hdr, heads, pixel, alphaHdr, readSector(data, pixel.next + 24))
        Pixels(hdr, heads, pixel) ==
          IF pixel.err # "" THEN [err |-> "failed to read pixel data sector"]
          ELSE IF hdr.Type = Type32Bit
          THEN AlphaHdr(hdr, heads, pixel, ReadAlphaHeader(data, pixel.next))
          ELSE Result(hdr, heads, pixel.data, NoAlphaHeader, <<>>, pixel.data)
        Heads(hdr, sector, heads) ==
          IF heads.err # "" THEN [err |-> "failed to parse BMP headers"]
          ELSE Pixels(hdr, heads, readSector(data, sector.next))
        Sector(hdr, sector) ==
          IF sector.err # "" THEN [err |-> "failed to read BMP header sector"]
          ELSE Heads(hdr, sector, ReadBitmapHeaders(sector.data))
        Start(hdr) == IF hdr.err # "" THEN [err |-> hdr.err] ELSE Sector(hdr, readSector(data, 12))
    IN Start(AgfReadHeader(data))

\* The BMP headers writeBMP32 and writeBMP24 build: "BM", the size, the
\* offset of the pixels; the info header with the optional fields zero.
BmpHeaders(size, offsetBits, width, height, bitCount) ==
    FileHeaderBytes([Type |-> 19778, Size |-> size, Reserved1 |-> 0, Reserved2 |-> 0,
                     OffsetBits |-> offsetBits])
      \o InfoHeaderBytes([Size |-> 40, Width |-> width, Height |-> height, Planes |-> 1,
                          BitCount |-> bitCount, Compression |-> 0, SizeImage |-> 0,
                          XPelsPerMeter |-> 0, YPelsPerMeter |-> 0, ClrUsed |-> 0,
                          ClrImportant |-> 0])

\* UnpackResult.writeBMP32.
writeBMP32(r) ==
    BmpHeaders(14 + 40 + r.InfoHeader.Width * r.InfoHeader.Height * 4, 14 + 40,
               r.InfoHeader.Width, r.InfoHeader.Height, 32)
      \o r.DecodedData

\* UnpackResult.writeBMP24: the palette is written unless the reference
\* file header has OffsetBits = 54.
writeBMP24(r) ==
    LET paletteSize == IF Len(r.Palette) > 0 /\ r.FileHeader.OffsetBits # 54
                       THEN Len(r.Palette) * 4 ELSE 0
    IN BmpHeaders(14 + 40 + paletteSize + Len(r.PixelData), 14 + 40 + paletteSize,
                  r.InfoHeader.Width, r.InfoHeader.Height, r.InfoHeader.BitCount)
         \o (IF paletteSize > 0 THEN QuadBytes(r.Palette) ELSE <<>>)
         \o r.PixelData

\* UnpackResult.WriteBMP.
WriteBMP(r) == IF r.Header.Type = Type32Bit THEN writeBMP32(r) ELSE writeBMP24(r)

\* ReadBMP of the bytes of a BMP file, size being their number.
ReadBMP(data, size) ==
    LET Body(bmf, numColors) ==
          IF 54 + numColors * 4 > Len(data) THEN [err |-> "failed to read palette"]
          ELSE IF bmf.OffsetBits < 0 \/ size - bmf.OffsetBits < 0 THEN [err |-> "panic"]
          ELSE IF 54 + numColors * 4 + (size - bmf.OffsetBits) > Len(data)
          THEN [err |-> "failed to read pixel data"]
          ELSE [err |-> "", bmf |-> bmf, bmi |-> InfoHeaderAt(data, 14),
                palette |-> Quads(SubSeq(data, 55, 54 + numColors * 4)),
                pixelData |-> SubSeq(data, 55 + numColors * 4,
                                     54 + numColors * 4 + (size - bmf.OffsetBits))]
        Palette(bmf) ==
          Body(bmf, IF bmf.OffsetBits - 54 > 0 THEN (bmf.OffsetBits - 54) \div 4 ELSE 0)
    IN IF Len(data) < 14 THEN [err |-> "failed to read BMP file header"]
       ELSE IF ReadU16(data, 0) # 19778 THEN [err |-> "invalid BMP signature"]
       ELSE IF Len(data) < 54 THEN [err |-> "failed to read BMP info header"]
       ELSE Palette(FileHeaderAt(data))

\* A mutant of findNearestPalette: the first palette entry for every colour.
FirstPalette(input, palette, paletteNil, cache) == [panic |-> FALSE, idx |-> 0, cache |-> cache]

\* A mutant of findNearestPalette: of the entries at the least distance the
\* last one, in the exact search and in the search by distance.
findNearestPaletteLast(input, palette, paletteNil, cache) ==
    LET key == <<input.Blue, input.Green, input.Red>>
        Dist(c) == (c.Blue - input.Blue) * (c.Blue - input.Blue)
                     + (c.Green - input.Green) * (c.Green - input.Green)
                     + (c.Red - input.Red) * (c.Red - input.Red)
        last == CHOOSE i \in 1..Len(palette) :
                  /\ \A j \in 1..Len(palette) : Dist(palette[i]) <= Dist(palette[j])
                  /\ \A j \in (i + 1)..Len(palette) : Dist(palette[j]) > Dist(palette[i])
    IN IF key \in DOMAIN cache THEN [panic |-> FALSE, idx |-> cache[key], cache |-> cache]
       ELSE IF palette = <<>> THEN [panic |-> paletteNil, idx |-> 0, cache |-> cache]
       ELSE [panic |-> paletteNil, idx |-> last - 1,
             cache |-> [k \in DOMAIN cache \cup {key} |-> IF k = key THEN last - 1 ELSE cache[k]]]

\* findNearestPalette: the cached index, else the first exact match, else
\* the first entry at the least distance, which is cached.  The cache maps
\* <<blue, green, red>> to an index; writing to the nil map panics.
findNearestPalette(input, palette, paletteNil, cache) ==
    LET key == <<input.Blue, input.Green, input.Red>>
        Same(c) == c.Blue = input.Blue /\ c.Green = input.Green /\ c.Red = input.Red
        Dist(c) == (c.Blue - input.Blue) * (c.Blue - input.Blue)
                     + (c.Green - input.Green) * (c.Green - input.Green)
                     + (c.Red - input.Red) * (c.Red - input.Red)
        Store(minIdx) ==
          [panic |-> paletteNil, idx |-> minIdx,
           cache |-> [k \in DOMAIN cache \cup {key} |-> IF k = key THEN minIdx ELSE cache[k]]]
    IN IF key \in DOMAIN cache THEN [panic |-> FALSE, idx |-> cache[key], cache |-> cache]
       ELSE IF \E i \in 1..Len(palette) : Same(palette[i])
       THEN [panic |-> FALSE, cache |-> cache,
             idx |-> (CHOOSE i \in 1..Len(palette) :
                        Same(palette[i]) /\ \A j \in 1..(i - 1) : ~Same(palette[j])) - 1]
       ELSE IF palette = <<>> THEN Store(0)
       ELSE Store((CHOOSE i \in 1..Len(palette) :
                     /\ \A j \in 1..Len(palette) : Dist(palette[i]) <= Dist(palette[j])
                     /\ \A j \in 1..(i - 1) : Dist(palette[j]) > Dist(palette[i])) - 1)

\* The loop of encodeColorMapWithAlpha from pixel k on (pixel y * width + x,
\* rows first), with the two planes, the cache and whether the code has
\* panicked.
RECURSIVE EncodePixels(_, _, _, _, _)
EncodePixels(decodedData, bmiWidth, original, k, st) ==
    LET width == original.InfoHeader.Width
        height == original.InfoHeader.Height
        rgbStride == RgbStride(width, original.InfoHeader.BitCount)
        y == k \div width
        x == k % width
        blueIndex == y * bmiWidth * 4 + x * 4
        alphaIndex == (height - y - 1) * width + x
        Set(plane, index, value) == [plane EXCEPT ![index + 1] = value]
        Next(encodedData) ==
          IF alphaIndex >= Len(st.alphaData) \/ alphaIndex < 0
          THEN [st EXCEPT !.panic = TRUE]
          ELSE EncodePixels(decodedData, bmiWidth, original, k + 1,
                            [st EXCEPT !.encodedData = encodedData,
                                       !.alphaData = Set(@, alphaIndex, decodedData[blueIndex + 4])])
        Indexed(found) ==
          IF found.panic \/ y * rgbStride + x >= Len(st.encodedData)
          THEN [st EXCEPT !.panic = TRUE]
          ELSE IF alphaIndex >= Len(st.alphaData) \/ alphaIndex < 0
          THEN [st EXCEPT !.panic = TRUE]
          ELSE EncodePixels(decodedData, bmiWidth, original, k + 1,
                            [st EXCEPT !.encodedData = Set(@, y * rgbStride + x, found.idx % 256),
                                       !.alphaData = Set(@, alphaIndex, decodedData[blueIndex + 4]),
                                       !.cache = found.cache])
    IN IF height <= 0 \/ width <= 0 \/ k >= width * height THEN st
       ELSE IF blueIndex < 0 \/ blueIndex + 3 >= Len(decodedData) THEN [st EXCEPT !.panic = TRUE]
       ELSE IF original.InfoHeader.BitCount = 8
       THEN Indexed(findNearestPalette([Blue |-> decodedData[blueIndex + 1],
                                        Green |-> decodedData[blueIndex + 2],
                                        Red |-> decodedData[blueIndex + 3], Reserved |-> 0],
                                       original.Palette, original.PaletteNil, st.cache))
       ELSE IF y * rgbStride + x * 3 + 2 >= Len(st.encodedData) THEN [st EXCEPT !.panic = TRUE]
       ELSE Next([i \in 1..Len(st.encodedData) |->
                    IF i - 1 >= y * rgbStride + x * 3 /\ i - 1 <= y * rgbStride + x * 3 + 2
                    THEN decodedData[blueIndex + (i - 1 - (y * rgbStride + x * 3)) + 1]
                    ELSE st.encodedData[i]])

\* encodeColorMapWithAlpha: the colour plane and the alpha plane of BGRA
\* bytes, sized after the reference.
encodeColorMapWithAlpha(decodedData, bmi, original) ==
    LET width == original.InfoHeader.Width
        height == original.InfoHeader.Height
        rgbStride == RgbStride(width, original.InfoHeader.BitCount)
        alphaSize == IF original.InfoHeader.BitCount = 8 THEN height * width
                     ELSE Len(original.AlphaData)
        encodedSize == IF original.InfoHeader.BitCount = 8 THEN height * rgbStride
                       ELSE Len(original.PixelData)
    IN IF alphaSize < 0 \/ encodedSize < 0
       THEN [panic |-> TRUE, encodedData |-> <<>>, alphaData |-> <<>>, cache |-> <<>>]
       ELSE EncodePixels(decodedData, bmi.Width, original, 0,
                         [panic |-> FALSE, encodedData |-> Repeat(0, encodedSize),
                          alphaData |-> Repeat(0, alphaSize), cache |-> <<>>])

\* packToWriter: the bytes written, or the panic of the encoder.
packToWriter(pixelData, bmi, original) ==
    LET head == AgfWriteHeader(original.Header)
                  \o writeSector(WriteBitmapHeaders(original.FileHeader, original.InfoHeader,
                                                    IF original.InfoHeader.BitCount = 8
                                                    THEN original.Palette ELSE <<>>))
        Planes(enc) ==
          IF enc.panic THEN [err |-> "panic", bytes |-> <<>>]
          ELSE [err |-> "",
                bytes |-> head \o writeSector(enc.encodedData)
                            \o WriteAlphaHeader(original.AlphaHeader)
                            \o writeSector(enc.alphaData)]
    IN IF original.Header.Type = Type32Bit
       THEN Planes(encodeColorMapWithAlpha(pixelData, bmi, original))
       ELSE [err |-> "", bytes |-> head \o writeSector(pixelData)]

\* PackToBytes on the bytes of a BMP file.
PackToBytes(bmp, original) ==
    LET Pack(r) == IF r.err # "" THEN [err |-> r.err, bytes |-> <<>>]
                   ELSE packToWriter(r.pixelData, r.bmi, original)
    IN Pack(ReadBMP(bmp, Len(bmp)))

(***************************************************************************)
(* Reference AGF files.  A file holds the 12-byte header, the sector of    *)
(* the BMP headers, the sector of the colour plane (rows padded to 4       *)
(* bytes) and, for type 2, the ACIF header and the sector of the alpha     *)
(* plane.  A sector is stored raw or LZSS-compressed.                      *)
(***************************************************************************)
MaxWidth == 3
MaxHeight == 2
Seeds == {1, 2}

\* A stored sector, compressed on demand.
StoredSector(data, compressed) ==
    LET Stored(packed) ==
          WriteSectorHeader([OriginalLength |-> Len(data), OriginalLength2 |-> Len(data),
                             Length |-> Len(packed)]) \o packed
    IN IF compressed THEN Stored(Compress(data)) ELSE writeSector(data)

Color(blue, green, red, reserved) ==
    [Blue |-> blue, Green |-> green, Red |-> red, Reserved |-> reserved]
\* Palettes, one with a colour at two indexes before and after another.
PaletteMenu ==
    {<<Color(10, 20, 30, 0), Color(200, 100, 50, 255)>>,
     <<Color(10, 20, 30, 0), Color(200, 100, 50, 0), Color(10, 20, 30, 0)>>,
     <<Color(7, 7, 7, 0), Color(7, 7, 7, 9), Color(0, 255, 0, 0)>>}

\* The colour plane of a 24-bit image: every byte of every padded row.
RgbPlane(width, height, seed) ==
    [i \in 1..(height * RgbStride(width, 24)) |-> (seed * 83 + i * 57) % 256]
\* The colour plane of a palettized image: an index per pixel, 170 in the
\* padding.
IndexPlane(width, height, seed, palette) ==
    [i \in 1..(height * RgbStride(width, 8)) |->
       IF (i - 1) % RgbStride(width, 8) < width THEN (seed + i) % Len(palette) ELSE 170]
AlphaPlane(width, height, seed) == [i \in 1..(width * height) |-> (seed * 29 + i * 101) % 256]

\* The images of the reference files: the AGF type, the fields of the
\* headers stored in the first sector, the palette, the planes, and what
\* was done to the file afterwards.
Image(type, offsetBits, shape, bitCount, palette, plane, damage) ==
    [type |-> type, offsetBits |-> offsetBits, width |-> shape[1], height |-> shape[2],
     seed |-> shape[3], compressed |-> shape[4], bitCount |-> bitCount, palette |-> palette,
     planes |-> IF type = Type32Bit
                THEN <<plane, AlphaPlane(shape[1], shape[2], shape[3])>>
                ELSE <<plane>>,
     damage |-> damage]
Shapes == (1..MaxWidth) \X (1..MaxHeight) \X Seeds \X BOOLEAN
\* 24-bit files, with 24-bit pixels or with a palette that the BMP keeps
\* (OffsetBits past the palette) or drops (OffsetBits = 54).
Images24 ==
    {Image(Type24Bit, 54, s, 24, <<>>, RgbPlane(s[1], s[2], s[3]), "none") : s \in Shapes}
      \cup {Image(Type24Bit, IF s[4] THEN 54 ELSE 54 + 4 * Len(p), <<s[1], s[2], s[3], FALSE>>,
                  8, p, IndexPlane(s[1], s[2], s[3], p), "none") :
              s \in Shapes, p \in {q \in PaletteMenu : Len(q) = 2}}
\* 32-bit files with a 24-bit colour plane.
Images32 ==
    {Image(Type32Bit, 54, s, 24, <<>>, RgbPlane(s[1], s[2], s[3]), "none") : s \in Shapes}
\* 32-bit files with a palettized colour plane.
Images32Indexed ==
    {Image(Type32Bit, 54 + 4 * Len(p), s, 8, p, IndexPlane(s[1], s[2], s[3], p), "none") :
        s \in Shapes, p \in PaletteMenu}
\* Files Unpack does not accept: an unknown type, a file cut short, a pixel
\* that indexes past the palette.
ImagesRejected ==
    {[m EXCEPT !.damage = d] : m \in {n \in Images32 : n.width = 1}, d \in {"type", "cut"}}
      \cup {Image(Type32Bit, 58, <<1, 1, 1, FALSE>>, 8, <<Color(1, 2, 3, 0)>>, <<5, 0, 0, 0>>,
                  "none")}

\* Files whose headers sector has other bytes than zero in the 2-byte gap
\* between the file header and the info header (offsets 14 and 15 of the
\* sector, after the 12 bytes of the AGF header and the 12 of the sector
\* header).
ImagesGap ==
    {[m EXCEPT !.damage = "gap"] :
        m \in {n \in Images24 \cup Images32 : n.width = 1 /\ ~n.compressed}}

\* The stored sectors of the planes, one after the other, the ACIF header
\* before the second.
RECURSIVE StoredPlanes(_, _, _)
StoredPlanes(image, k, bytes) ==
    IF k > Len(image.planes) THEN bytes
    ELSE StoredPlanes(image, k + 1,
           bytes \o (IF k = 2
                     THEN WriteAlphaHeader([Signature |-> ACIF, Type |-> image.type,
                                            Unknown |-> 0,
                                            OriginalLength |-> Len(image.planes[k]),
                                            Width |-> image.width, Height |-> image.height])
                     ELSE <<>>)
                 \o StoredSector(image.planes[k], image.compressed))

\* The reference file of an image.
AgfFile(image) ==
    LET Damaged(file) ==
          CASE image.damage = "type" -> [file EXCEPT ![5] = 3]
            [] image.damage = "gap" -> [file EXCEPT ![39] = 1, ![40] = 2]
            [] image.damage = "cut" -> Take(file, Len(file) - 1)
            [] OTHER -> file
    IN Damaged(
         (IF image.seed = 1 THEN <<65, 67, 71, 70>> ELSE <<0, 0, 0, 0>>)
           \o PutU32(image.type) \o PutU32(image.seed)
           \o writeSector(WriteBitmapHeaders(
                [Type |-> 0, Size |-> image.offsetBits + Len(image.planes[1]), Reserved1 |-> 0,
                 Reserved2 |-> 0, OffsetBits |-> image.offsetBits],
                [Size |-> 40, Width |-> image.width, Height |-> image.height, Planes |-> 1,
                 BitCount |-> image.bitCount, Compression |-> 0,
                 SizeImage |-> Len(image.planes[1]), XPelsPerMeter |-> 2835,
                 YPelsPerMeter |-> 2835, ClrUsed |-> Len(image.palette), ClrImportant |-> 0],
                image.palette))
           \o StoredPlanes(image, 1, <<>>))
AgfRefs ==
    {AgfFile(image) :
       image \in Images24 \cup Images32 \cup Images32Indexed \cup ImagesRejected
                  \cup ImagesGap}

(***************************************************************************)
(* SpecAgf: a reference file is unpacked, the BMP written, the BMP packed  *)
(* against the reference, the packed file unpacked.                        *)
(***************************************************************************)
InitAgf ==
    /\ agfRef \in AgfRefs
    /\ agfPc = "ref"
    /\ unpacked = Idle /\ bmpFile = <<>> /\ packedAgf = Idle /\ repacked = Idle
    /\ IdleLzss /\ IdleStream /\ IdleCalls /\ IdleBin /\ IdleAlf /\ IdleAsm /\ IdlePack
    /\ IdlePal

\* Unpack of a reference file it accepts.
UnpackRef ==
    /\ agfPc = "ref"
    /\ \E u \in {Unpack(agfRef)} : u.err = "" /\ unpacked' = u
    /\ agfPc' = "unpacked"
    /\ UNCHANGED <<agfRef, bmpFile, packedAgf, repacked, notAgf>>

\* WriteBMP of the unpacked result.
WriteBmpFile ==
    /\ agfPc = "unpacked"
    /\ bmpFile' = WriteBMP(unpacked)
    /\ agfPc' = "bmp"
    /\ UNCHANGED <<agfRef, unpacked, packedAgf, repacked, notAgf>>

\* PackToBytes of the BMP with the unpacked reference.
PackBmp ==
    /\ agfPc = "bmp"
    /\ packedAgf' = PackToBytes(bmpFile, unpacked)
    /\ agfPc' = "packed"
    /\ UNCHANGED <<agfRef, unpacked, bmpFile, repacked, notAgf>>

\* Unpack of the packed file.
UnpackPacked ==
    /\ agfPc = "packed"
    /\ packedAgf.err = ""
    /\ repacked' = Unpack(packedAgf.bytes)
    /\ agfPc' = "repacked"
    /\ UNCHANGED <<agfRef, unpacked, bmpFile, packedAgf, notAgf>>

NextAgf == UnpackRef \/ WriteBmpFile \/ PackBmp \/ UnpackPacked

SpecAgf == InitAgf /\ [][NextAgf]_vars

\* C3: packing the BMP written from an unpacked reference against the
\* reference succeeds, and unpacking the packed file gives the decoded
\* pixel data of the reference.
RoundTripAgf ==
    /\ agfPc \in {"packed", "repacked"} => packedAgf.err = ""
    /\ agfPc = "repacked" =>
         repacked.err = "" /\ repacked.DecodedData = unpacked.DecodedData

\* C3 witness: the round trip of a 32-bit palettized reference in which a
\* pixel came back with another palette index than the reference has.
RoundTripAgfWitness ==
    /\ agfPc = "repacked"
    /\ repacked.err = ""
    /\ unpacked.Header.Type = Type32Bit
    /\ unpacked.InfoHeader.BitCount = 8
    /\ Len(repacked.PixelData) = Len(unpacked.PixelData)
    /\ \E i \in 1..Len(unpacked.PixelData) :
         /\ (i - 1) % RgbStride(unpacked.InfoHeader.Width, 8) < unpacked.InfoHeader.Width
         /\ repacked.PixelData[i] # unpacked.PixelData[i]

\* The position after the sector at pos, from the stored length of its
\* header, and its stored bytes.
SectorEnd(data, pos) == pos + 12 + ReadU32(data, pos + 8)
SectorBytes(data, pos) == SubSeq(data, pos + 13, SectorEnd(data, pos))
\* The sector at pos is stored as it is: the three lengths of its header
\* are equal, and its bytes are in the file.
StoredRaw(data, pos) ==
    /\ pos + 12 <= Len(data)
    /\ ReadU32(data, pos) = ReadU32(data, pos + 4)
    /\ ReadU32(data, pos + 4) = ReadU32(data, pos + 8)
    /\ SectorEnd(data, pos) <= Len(data)
\* The position of the ACIF header: after the headers sector and the
\* sector of the colour plane.
AlphaHeaderAt(data) == SectorEnd(data, SectorEnd(data, 12))
HeaderCopied == Take(packedAgf.bytes, 12) = Take(agfRef, 12)
\* The headers sector of a reference is stored as it is (AgfFile), so its
\* payload is its stored bytes.
HeadersSectorCopied == SectorBytes(packedAgf.bytes, 12) = SectorBytes(agfRef, 12)
AlphaHeaderCopied ==
    unpacked.Header.Type = Type32Bit =>
        SubSeq(packedAgf.bytes, AlphaHeaderAt(packedAgf.bytes) + 1,
               AlphaHeaderAt(packedAgf.bytes) + 24)
          = SubSeq(agfRef, AlphaHeaderAt(agfRef) + 1, AlphaHeaderAt(agfRef) + 24)
SectorsStoredRaw ==
    /\ StoredRaw(packedAgf.bytes, 12)
    /\ StoredRaw(packedAgf.bytes, SectorEnd(packedAgf.bytes, 12))
    /\ IF unpacked.Header.Type = Type32Bit
       THEN /\ StoredRaw(packedAgf.bytes, AlphaHeaderAt(packedAgf.bytes) + 24)
            /\ SectorEnd(packedAgf.bytes, AlphaHeaderAt(packedAgf.bytes) + 24)
                 = Len(packedAgf.bytes)
       ELSE AlphaHeaderAt(packedAgf.bytes) = Len(packedAgf.bytes)

\* C19 (as stated, refuted): in the file PackToBytes returns, the 12 bytes
\* of the AGF header, the payload of the headers sector (file header,
\* 2-byte gap, info header, palette) and the 24 bytes of the ACIF header of
\* a 32-bit file are those of the reference, and every sector is stored
\* as it is, its three lengths equal.
PackCopiesHeaders ==
    (agfPc \in {"packed", "repacked"} /\ packedAgf.err = "") =>
        HeaderCopied /\ HeadersSectorCopied /\ AlphaHeaderCopied /\ SectorsStoredRaw

(***************************************************************************)
(* SpecPalette: the calls of findNearestPalette that one call of           *)
(* encodeColorMapWithAlpha makes for a reference with a palette: one call  *)
(* per pixel, all with the palette of the reference and one cache.         *)
(***************************************************************************)
MaxPalette == 2
MaxPixels == 2
\* Palette colours: two of them 4 apart, one with a reserved byte.
PaletteColours ==
    {Color(0, 0, 0, 0), Color(4, 0, 0, 0), Color(0, 4, 0, 9), Color(255, 255, 255, 0)}
\* Pixel colours: one of the palette, one halfway between two palette
\* colours, and colours nearer to one palette colour than to the others.
PixelColours ==
    {Color(0, 0, 0, 0), Color(2, 0, 0, 0), Color(1, 0, 0, 0), Color(3, 1, 0, 0),
     Color(200, 200, 200, 0)}

InitPalette ==
    /\ palList \in SeqsUpTo(PaletteColours, MaxPalette) \ {<<>>}
    /\ palInputs \in SeqsUpTo(PixelColours, MaxPixels)
    /\ additionalPalMap = <<>>
    /\ palIndexes = <<>>
    /\ IdleLzss /\ IdleStream /\ IdleCalls /\ IdleBin /\ IdleAgf /\ IdleAlf /\ IdleAsm
    /\ IdlePack

\* The body of the loop over the pixels for an 8-bit reference: the index
\* of the next pixel is looked up, the cache is the one the call left.
LookupPixel ==
    /\ Len(palIndexes) < Len(palInputs)
    /\ \E found \in {findNearestPalette(palInputs[Len(palIndexes) + 1], palList, FALSE,
                                         additionalPalMap)} :
         /\ palIndexes' = Append(palIndexes, found.idx)
         /\ additionalPalMap' = found.cache
    /\ UNCHANGED <<palList, palInputs, notPal>>

NextPalette == LookupPixel

SpecPalette == InitPalette /\ [][NextPalette]_vars

\* The square of the Euclidean distance of two colours in RGB space.
Distance(c, input) ==
    (c.Blue - input.Blue) * (c.Blue - input.Blue)
      + (c.Green - input.Green) * (c.Green - input.Green)
      + (c.Red - input.Red) * (c.Red - input.Red)

\* idx is the lowest index of a palette colour at the least distance from
\* input.
LowestNearest(idx, input) ==
    /\ idx \in 0..(Len(palList) - 1)
    /\ \A j \in 1..Len(palList) : Distance(palList[idx + 1], input) <= Distance(palList[j], input)
    /\ \A j \in 1..idx : Distance(palList[j], input) > Distance(palList[idx + 1], input)
    /\ (\E j \in 1..Len(palList) : Distance(palList[j], input) = 0) =>
         Distance(palList[idx + 1], input) = 0

\* C27: every index returned for a pixel is the lowest index of a palette
\* colour at the least Euclidean distance from the pixel (of the pixel's own
\* colour when the palette has it), and it is the index a search without
\* the cache returns.
NearestPaletteReturned ==
    \A k \in 1..Len(palIndexes) :
        /\ LowestNearest(palIndexes[k], palInputs[k])
        /\ palIndexes[k] = findNearestPalette(palInputs[k], palList, FALSE, <<>>).idx

\* C27 witness: a pixel halfway between two palette colours, neither of them
\* its own, was looked up twice, the second time from the cache.
NearestPaletteReturnedWitness ==
    /\ Len(palIndexes) = 2
    /\ palInputs[1] = palInputs[2]
    /\ <<palInputs[2].Blue, palInputs[2].Green, palInputs[2].Red>> \in DOMAIN additionalPalMap
    /\ Len(palList) = 2
    /\ Distance(palList[1], palInputs[2]) = Distance(palList[2], palInputs[2])
    /\ Distance(palList[1], palInputs[2]) > 0
    /\ palList[1] # palList[2]

(***************************************************************************)
(* pkg/alf: the index file (S4IC, S4AC, S5IN, S5IC, S5AC) of a set of      *)
(* containers, AddArchive, Open and Extract.  A name is the sequence of    *)
(* its code points (of its bytes in an S4 index).                          *)
(***************************************************************************)
FormatS4 == 4
FormatS5 == 5
S4HeaderSize == 300
S5HeaderSize == 540
S4FileEntrySize == 80
S5FileEntrySize == 144
S4ArchiveEntrySize == 256
S5ArchiveEntrySize == 512

\* A uint32 count or size n read as int on a 64-bit build: i < n, and
\* start + n > length.
Below(i, n) == n < 0 \/ i < n
Exceeds(start, n, length) == n < 0 \/ n > length - start

\* utf16.Decode: a surrogate pair is one code point, a lone surrogate is
\* U+FFFD.
RECURSIVE Utf16Decode(_, _)
Utf16Decode(u16, i) ==
    IF i > Len(u16) THEN <<>>
    ELSE IF u16[i] \in 55296..56319 /\ i < Len(u16) /\ u16[i + 1] \in 56320..57343
    THEN <<65536 + (u16[i] - 55296) * 1024 + (u16[i + 1] - 56320)>> \o Utf16Decode(u16, i + 2)
    ELSE <<IF u16[i] \in 55296..57343 THEN 65533 ELSE u16[i]>> \o Utf16Decode(u16, i + 1)

\* The number of whole code units of data before the first zero unit.
RECURSIVE UnitsBeforeNull(_, _)
UnitsBeforeNull(data, i) ==
    IF 2 * i + 2 > Len(data) \/ ReadU16(data, 2 * i) = 0 THEN i
    ELSE UnitsBeforeNull(data, i + 1)

DecodeUTF16LE(data) ==
    IF Len(data) < 2 THEN <<>>
    ELSE Utf16Decode([i \in 1..UnitsBeforeNull(data, 0) |-> ReadU16(data, 2 * (i - 1))], 1)

ReadUTF16StringPadded(data, offset, size) ==
    DecodeUTF16LE(SubSeq(data, offset + 1, Min(offset + size, Len(data))))

\* readNullTerminatedString: the bytes before the first zero byte.
RECURSIVE readNullTerminatedString(_)
readNullTerminatedString(data) ==
    IF data = <<>> \/ data[1] = 0 THEN <<>>
    ELSE <<data[1]>> \o readNullTerminatedString(Tail(data))

\* encodeUTF16StringPadded: uint16(r) of each rune that fits, zeros after.
encodeUTF16StringPadded(s, size) ==
    [b \in 1..size |->
       LET i == (b - 1) \div 2
       IN IF i < Len(s) /\ i * 2 + 1 < size
          THEN (IF (b - 1) % 2 = 0 THEN s[i + 1] % 256 ELSE (s[i + 1] \div 256) % 256)
          ELSE 0]

\* The bytes of a Go string of the given code points.
RuneBytes(r) ==
    IF r < 128 THEN <<r>>
    ELSE IF r < 2048 THEN <<192 + (r \div 64), 128 + (r % 64)>>
    ELSE IF r < 65536
    THEN <<224 + (r \div 4096), 128 + ((r \div 64) % 64), 128 + (r % 64)>>
    ELSE <<240 + (r \div 262144), 128 + ((r \div 4096) % 64), 128 + ((r \div 64) % 64),
           128 + (r % 64)>>
GoString(runes) == Concat([i \in 1..Len(runes) |-> RuneBytes(runes[i])])

\* DetectFormat of an index file: the version and the error.
AlfDetectFormat(data) ==
    LET Magic(magic) ==
          IF Len(magic) >= 2 /\ magic[1] = 83 /\ magic[2] = 53
          THEN [Version |-> FormatS5, err |-> ""]
          ELSE IF data[1] = 83 /\ data[2] = 52 THEN [Version |-> FormatS4, err |-> ""]
          ELSE [Version |-> 0, err |-> "invalid archive magic"]
    IN IF Len(data) < 8 THEN [Version |-> 0, err |-> "unexpected EOF"]
       ELSE IF data[2] = 0 /\ data[4] = 0 /\ data[6] = 0 /\ data[8] = 0
       THEN Magic(GoString(DecodeUTF16LE(Take(data, 8))))
       ELSE Magic(<<>>)

\* S4Header.SignatureString: the first 8 bytes up to a zero byte.
S4SignatureString(data) == readNullTerminatedString(Take(data, 8))
\* S5Header.SignatureString.
S5SignatureString(data) == GoString(DecodeUTF16LE(Take(data, 8)))

\* Header.IsCompressed and Header.IsAppend, on the signature string.
AlfIsCompressed(signature) == Len(signature) >= 4 /\ signature[4] = 67
IsAppend(signature) == Len(signature) >= 3 /\ signature[3] = 65

ReadS4Header(data) ==
    IF Len(data) < S4HeaderSize THEN [err |-> "unexpected EOF"]
    ELSE [err |-> "", Version |-> FormatS4, Signature |-> S4SignatureString(data),
          Raw |-> Take(data, S4HeaderSize)]
ReadS5Header(data) ==
    IF Len(data) < S5HeaderSize THEN [err |-> "unexpected EOF"]
    ELSE [err |-> "", Version |-> FormatS5, Signature |-> S5SignatureString(data),
          Raw |-> Take(data, S5HeaderSize)]

\* ReadS4SectorHeader and ReadCompressionInfo: three uint32 at an offset.
ReadCompressionInfo(data, offset) ==
    IF offset + 12 > Len(data) THEN [err |-> "unexpected EOF"]
    ELSE [err |-> "", UncompSize1 |-> ReadU32(data, offset),
          UncompSize2 |-> ReadU32(data, offset + 4), CompSize |-> ReadU32(data, offset + 8)]
ReadS4SectorHeader(data, offset) ==
    IF offset + 12 > Len(data) THEN [err |-> "unexpected EOF"]
    ELSE [err |-> "", OriginalLength |-> ReadU32(data, offset),
          OriginalLength2 |-> ReadU32(data, offset + 4), Length |-> ReadU32(data, offset + 8)]

FileEntry(filename, arcIndex, fileIndex, offset, length) ==
    [Filename |-> filename, ArchiveIndex |-> arcIndex, FileIndex |-> fileIndex,
     Offset |-> offset, Length |-> length]

\* The name field of an archive or of a file entry.
NameAt(version, data, pos, size) ==
    IF version = FormatS5 THEN ReadUTF16StringPadded(data, pos, size)
    ELSE readNullTerminatedString(SubSeq(data, pos + 1, pos + size))
ArchiveEntrySize(version) ==
    IF version = FormatS5 THEN S5ArchiveEntrySize ELSE S4ArchiveEntrySize
FileEntrySize(version) == IF version = FormatS5 THEN S5FileEntrySize ELSE S4FileEntrySize

\* The loop over the archive names.  With open, each container is opened:
\* a name no container has is an error, the empty name is the directory.
RECURSIVE ReadSources(_, _, _, _, _, _, _, _)
ReadSources(version, metadata, pos, i, arcCount, containers, open, acc) ==
    LET Opened(name) ==
          IF open /\ name # <<>> /\ name \notin DOMAIN containers
          THEN [err |-> "open", at |-> i, pos |-> pos, Sources |-> acc]
          ELSE ReadSources(version, metadata, pos + ArchiveEntrySize(version), i + 1, arcCount,
                           containers, open, Append(acc, name))
    IN IF ~Below(i, arcCount) THEN [err |-> "", at |-> i, pos |-> pos, Sources |-> acc]
       ELSE IF pos + ArchiveEntrySize(version) > Len(metadata)
       THEN [err |-> "archive", at |-> i, pos |-> pos, Sources |-> acc]
       ELSE Opened(NameAt(version, metadata, pos, ArchiveEntrySize(version)))

\* The loop over the file entries: the name, then four uint32.
RECURSIVE ReadEntries(_, _, _, _, _, _)
ReadEntries(version, metadata, pos, i, entryCount, acc) ==
    LET nameSize == FileEntrySize(version) - 16
    IN IF ~Below(i, entryCount) THEN [err |-> "", Entries |-> acc]
       ELSE IF pos + FileEntrySize(version) > Len(metadata)
       THEN [err |-> "entry", Entries |-> acc]
       ELSE ReadEntries(version, metadata, pos + FileEntrySize(version), i + 1, entryCount,
              Append(acc, FileEntry(NameAt(version, metadata, pos, nameSize),
                                    ReadU32(metadata, pos + nameSize),
                                    ReadU32(metadata, pos + nameSize + 4),
                                    ReadU32(metadata, pos + nameSize + 8),
                                    ReadU32(metadata, pos + nameSize + 12))))

\* The metadata of a compressed index: the archive count, the archive
\* names, the entry count, the entries.  err names the step that failed.
parseMetadata(version, metadata, containers, open) ==
    LET Files(sources, entries) ==
          [err |-> entries.err, Sources |-> sources.Sources, Entries |-> entries.Entries]
        Counted(sources) ==
          IF sources.err # "" THEN [err |-> sources.err, Sources |-> sources.Sources, Entries |-> <<>>]
          ELSE IF sources.pos + 4 > Len(metadata)
          THEN [err |-> "entryCount", Sources |-> sources.Sources, Entries |-> <<>>]
          ELSE Files(sources, ReadEntries(version, metadata, sources.pos + 4, 0,
                                          ReadU32(metadata, sources.pos), <<>>))
    IN IF 4 > Len(metadata) THEN [err |-> "count", Sources |-> <<>>, Entries |-> <<>>]
       ELSE Counted(ReadSources(version, metadata, 4, 0, ReadU32(metadata, 0), containers,
                                open, <<>>))

\* What Open leaves in the extractor: the error, and the archive as far as
\* it was parsed.
Parsed(header, parsed) ==
    [err |-> IF parsed.err = "" THEN ""
             ELSE IF parsed.err = "open" THEN "failed to open archive"
             ELSE "unexpected EOF",
     Header |-> header, Sources |-> parsed.Sources, Entries |-> parsed.Entries]
Unparsed(err) == [err |-> err, Sources |-> <<>>, Entries |-> <<>>]

parseS4Metadata(header, metadata, containers) ==
    Parsed(header, parseMetadata(FormatS4, metadata, containers, TRUE))
parseS5Metadata(header, metadata, containers) ==
    Parsed(header, parseMetadata(FormatS5, metadata, containers, TRUE))

\* openS4 after the header: the sector at 300, or at 0x10C of an append
\* index, decompressed when its two lengths differ.
openS4(data, containers) ==
    LET Meta(header, metadata) ==
          IF metadata = <<>> THEN Unparsed("LZSS decompression failed: empty result")
          ELSE parseS4Metadata(header, metadata, containers)
        Sector(header, metadataOffset, sectHdr) ==
          IF sectHdr.err # "" THEN Unparsed("failed to read sector header")
          ELSE IF Exceeds(metadataOffset + 12, sectHdr.Length, Len(data))
          THEN Unparsed("compressed data exceeds file size")
          ELSE IF sectHdr.OriginalLength # sectHdr.Length
          THEN Meta(header, Decompress(SubSeq(data, metadataOffset + 13,
                                              metadataOffset + 12 + sectHdr.Length)))
          ELSE parseS4Metadata(header, SubSeq(data, metadataOffset + 13,
                                              metadataOffset + 12 + sectHdr.Length), containers)
        At(header, metadataOffset) ==
          Sector(header, metadataOffset, ReadS4SectorHeader(data, metadataOffset))
        Head4(header) ==
          IF header.err # "" THEN Unparsed("failed to read S4 header")
          ELSE IF ~AlfIsCompressed(header.Signature)
          THEN Unparsed("S4 uncompressed format not supported")
          ELSE At(header, IF IsAppend(header.Signature) THEN 268 ELSE S4HeaderSize)
    IN Head4(ReadS4Header(data))

\* parseS5Compressed: the descriptor at 0x21C, or at 0x214 of an append
\* index.
parseS5Compressed(header, data, containers) ==
    LET Meta(metadata) ==
          IF metadata = <<>> THEN Unparsed("LZSS decompression failed: empty result")
          ELSE parseS5Metadata(header, metadata, containers)
        Info(infoOffset, compInfo) ==
          IF compInfo.err # "" THEN Unparsed("failed to read compression info")
          ELSE IF Exceeds(infoOffset + 12, compInfo.CompSize, Len(data))
          THEN Unparsed("compressed data exceeds file size")
          ELSE Meta(Decompress(SubSeq(data, infoOffset + 13,
                                      infoOffset + 12 + compInfo.CompSize)))
        At(infoOffset) == Info(infoOffset, ReadCompressionInfo(data, infoOffset))
    IN At(IF IsAppend(header.Signature) THEN 532 ELSE 540)

\* parseS5Uncompressed: one archive name at 0x200, the entry count, entries
\* of a 0x88-byte name, the offset and the length.
RECURSIVE ReadPlainEntries(_, _, _, _, _)
ReadPlainEntries(data, pos, i, entryCount, acc) ==
    IF ~Below(i, entryCount) THEN [err |-> "", Entries |-> acc]
    ELSE IF pos + S5FileEntrySize > Len(data) THEN [err |-> "entry", Entries |-> acc]
    ELSE ReadPlainEntries(data, pos + S5FileEntrySize, i + 1, entryCount,
           Append(acc, FileEntry(ReadUTF16StringPadded(data, pos, 136), 0, i,
                                 ReadU32(data, pos + 136), ReadU32(data, pos + 140))))
parseS5Uncompressed(header, data, containers) ==
    LET Named(arcName) ==
          IF 1028 > Len(data) THEN Unparsed("unexpected EOF")
          ELSE IF arcName # <<>> /\ arcName \notin DOMAIN containers
          THEN Unparsed("failed to open archive")
          ELSE Parsed(header,
                 [Sources |-> <<arcName>>] @@
                   ReadPlainEntries(data, 1028, 0, ReadU32(data, 1024), <<>>))
    IN Named(ReadUTF16StringPadded(data, 512, 512))

openS5(data, containers) ==
    LET Head5(header) ==
          IF header.err # "" THEN Unparsed("failed to read S5 header")
          ELSE IF AlfIsCompressed(header.Signature)
          THEN parseS5Compressed(header, data, containers)
          ELSE parseS5Uncompressed(header, data, containers)
    IN Head5(ReadS5Header(data))

\* Extractor.Open of the index bytes, the containers being the files next
\* to the index.
Open(data, containers) ==
    LET Opened(version) ==
          IF version.err # "" THEN Unparsed("failed to detect format")
          ELSE IF version.Version = FormatS4 THEN openS4(data, containers)
          ELSE openS5(data, containers)
    IN IF Len(data) < 8 THEN Unparsed("file too small to be a valid archive")
       ELSE Opened(AlfDetectFormat(data))

\* encodeFileEntry: the 128-byte name, then the archive index, the file
\* index, the offset and the length.
encodeFileEntry(entry) ==
    encodeUTF16StringPadded(entry.Filename, 128) \o PutU32(entry.ArchiveIndex)
      \o PutU32(entry.FileIndex) \o PutU32(entry.Offset) \o PutU32(entry.Length)

\* A metadata builder that puts the new entries before the old ones.
buildNewMetadataNewFirst(existingArchives, newArchive, existingEntries, newFileEntries) ==
    PutU32(Len(existingArchives) + 1)
      \o Concat([i \in 1..Len(existingArchives) |->
                   encodeUTF16StringPadded(existingArchives[i], S5ArchiveEntrySize)])
      \o encodeUTF16StringPadded(newArchive, S5ArchiveEntrySize)
      \o PutU32(Len(existingEntries) + Len(newFileEntries))
      \o Concat([i \in 1..Len(newFileEntries) |-> encodeFileEntry(newFileEntries[i])])
      \o Concat([i \in 1..Len(existingEntries) |-> encodeFileEntry(existingEntries[i])])

\* buildNewMetadata: the old archive names and the new one, the old entries
\* and the new ones.
buildNewMetadata(existingArchives, newArchive, existingEntries, newFileEntries) ==
    PutU32(Len(existingArchives) + 1)
      \o Concat([i \in 1..Len(existingArchives) |->
                   encodeUTF16StringPadded(existingArchives[i], S5ArchiveEntrySize)])
      \o encodeUTF16StringPadded(newArchive, S5ArchiveEntrySize)
      \o PutU32(Len(existingEntries) + Len(newFileEntries))
      \o Concat([i \in 1..Len(existingEntries) |-> encodeFileEntry(existingEntries[i])])
      \o Concat([i \in 1..Len(newFileEntries) |-> encodeFileEntry(newFileEntries[i])])

\* createALFArchive: the files one after the other, and their entries.  A
\* file of the directory is its relative name and its bytes, the files in
\* the order of the walk.
RECURSIVE createALFArchive(_, _, _, _)
createALFArchive(files, archiveIndex, fileIndex, acc) ==
    IF fileIndex >= Len(files) THEN acc
    ELSE createALFArchive(files, archiveIndex, fileIndex + 1,
           [bytes |-> acc.bytes \o files[fileIndex + 1].data,
            entries |-> Append(acc.entries,
                          FileEntry(files[fileIndex + 1].name, archiveIndex, fileIndex,
                                    Len(acc.bytes), Len(files[fileIndex + 1].data)))])

\* AddArchive up to the decompression (lines 116-155): the error, or the
\* compressed metadata.  The descriptor is read at 0x21C.
AddArchiveRead(data) ==
    LET Fail(message) == [err |-> message, compressed |-> <<>>]
        Info(compInfo) ==
          IF compInfo.err # "" THEN Fail("failed to read compression info")
          ELSE IF Exceeds(552, compInfo.CompSize, Len(data))
          THEN Fail("compressed data exceeds file size")
          ELSE [err |-> "", compressed |-> SubSeq(data, 553, 552 + compInfo.CompSize)]
        Head5(header) ==
          IF header.err # "" THEN Fail("failed to read header")
          ELSE IF ~AlfIsCompressed(header.Signature)
          THEN Fail("uncompressed S5IN format not supported yet")
          ELSE Info(ReadCompressionInfo(data, 540))
        Detected(version) ==
          IF version.err # "" THEN Fail("failed to detect format")
          ELSE IF version.Version # FormatS5 THEN Fail("only S5 format is supported")
          ELSE Head5(ReadS5Header(data))
    IN Detected(AlfDetectFormat(data))

\* AddArchive from the decompressed metadata to the new metadata (lines
\* 157-232): the error, or the container created and the metadata built.
AddArchiveBuild(read, metadata, ArchiveName, newFiles, containers) ==
    LET Fail(message) == [err |-> message, newMetadata |-> <<>>, alf |-> <<>>]
        Created(existing, alf) ==
          [err |-> "",
           newMetadata |-> buildNewMetadata(existing.Sources, ArchiveName,
                                            existing.Entries, alf.entries),
           alf |-> alf.bytes]
        Collected(existing) ==
          IF existing.err = "count" THEN Fail("metadata too short")
          ELSE IF existing.err = "archive" THEN Fail("metadata truncated at archive")
          ELSE IF existing.err = "entryCount" THEN Fail("metadata too short for file count")
          ELSE IF existing.err = "entry" THEN Fail("metadata truncated at entry")
          ELSE IF Len(newFiles) = 0 THEN Fail("no files found")
          ELSE IF ArchiveName = <<>> THEN Fail("failed to create ALF")
          ELSE Created(existing,
                 createALFArchive(newFiles, Len(existing.Sources), 0,
                                  [bytes |-> <<>>, entries |-> <<>>]))
    IN IF read.err # "" THEN Fail(read.err)
       ELSE IF metadata = <<>> THEN Fail("LZSS decompression failed")
       ELSE Collected(parseMetadata(FormatS5, metadata, containers, FALSE))

\* An end of AddArchive that writes the container whatever the error.
AddArchiveWriteAnyway(data, ArchiveName, containers, built, compressedMetadata) ==
    [err |-> built.err,
     index |-> Take(data, S5HeaderSize) \o PutU32(Len(built.newMetadata))
                 \o PutU32(Len(built.newMetadata)) \o PutU32(Len(compressedMetadata))
                 \o compressedMetadata,
     containers |-> (ArchiveName :> built.alf) @@ containers]

\* The end of AddArchive (lines 234-259): the index written, and the
\* containers next to the output after the call.
AddArchiveWrite(data, ArchiveName, containers, built, compressedMetadata) ==
    IF built.err # "" THEN [err |-> built.err, index |-> <<>>, containers |-> containers]
    ELSE [err |-> "",
          index |-> Take(data, S5HeaderSize) \o PutU32(Len(built.newMetadata))
                      \o PutU32(Len(built.newMetadata)) \o PutU32(Len(compressedMetadata))
                      \o compressedMetadata,
          containers |-> (ArchiveName :> built.alf) @@ containers]

AddArchiveCompress(data, ArchiveName, containers, built) ==
    AddArchiveWrite(data, ArchiveName, containers, built, Compress(built.newMetadata))

AddArchiveDecompress(data, ArchiveName, newFiles, containers, read) ==
    AddArchiveCompress(data, ArchiveName, containers,
      AddArchiveBuild(read, Decompress(read.compressed), ArchiveName, newFiles, containers))

\* AddArchive of an index (lines 114-262).
AddArchive(data, ArchiveName, newFiles, containers) ==
    AddArchiveDecompress(data, ArchiveName, newFiles, containers, AddArchiveRead(data))

(***************************************************************************)
(* Extract: the entries grouped by archive index, one goroutine per group, *)
(* a WaitGroup and a channel of errors with room for every group.          *)
(***************************************************************************)
\* strings.ToLower and strings.Contains, on names of ASCII letters.
ToLower(s) == [i \in 1..Len(s) |-> IF s[i] \in 65..90 THEN s[i] + 32 ELSE s[i]]
Contains(s, substr) ==
    \E i \in 0..(Len(s) - Len(substr)) : SubSeq(s, i + 1, i + Len(substr)) = substr

\* The entries Extract keeps, and their groups.
Selected(entries, Filter) ==
    SelectSeq(entries, LAMBDA e : Filter = <<>> \/ Contains(ToLower(e.Filename), ToLower(Filter)))
GroupsOf(entries, Filter) ==
    [idx \in {Selected(entries, Filter)[i].ArchiveIndex : i \in 1..Len(Selected(entries, Filter))} |->
       SelectSeq(Selected(entries, Filter), LAMBDA e : e.ArchiveIndex = idx)]

\* filepath.Ext, strings.TrimSuffix, filepath.Dir and filepath.Join of
\* names with no empty, dot or dot-dot element, which Clean leaves alone.
RECURSIVE ExtStart(_, _)
ExtStart(path, i) ==
    IF i < 1 \/ path[i] = 47 THEN Len(path) + 1
    ELSE IF path[i] = 46 THEN i ELSE ExtStart(path, i - 1)
Ext(path) == SubSeq(path, ExtStart(path, Len(path)), Len(path))
TrimSuffix(s, suffix) ==
    IF Len(s) >= Len(suffix) /\ SubSeq(s, Len(s) - Len(suffix) + 1, Len(s)) = suffix
    THEN Take(s, Len(s) - Len(suffix)) ELSE s
RECURSIVE LastSlash(_, _)
LastSlash(path, i) == IF i < 1 \/ path[i] = 47 THEN i ELSE LastSlash(path, i - 1)
Dir(path) == Take(path, LastSlash(path, Len(path)) - 1)
PathJoin(dir, name) ==
    IF name = <<>> THEN dir ELSE IF dir = <<>> THEN name ELSE dir \o <<47>> \o name

\* The output directory of the model: "d".
OutputDir == <<100>>
OutDir(name) == PathJoin(OutputDir, TrimSuffix(name, Ext(name)))
OutPath(name, filename) == PathJoin(OutDir(name), filename)

\* os.MkdirAll: the directory and the directories above it; it fails on a
\* file in the way.
DirsTo(dir) == {dir} \cup {Take(dir, i - 1) : i \in {j \in 1..Len(dir) : dir[j] = 47}}
MkdirAllFails(dir, files) == DirsTo(dir) \cap DOMAIN files # {}

\* File.ReadAt of length bytes at an offset of a container: an error when
\* fewer bytes are there, and always on a handle of a directory.
ReadAtFails(name, container, offset, length) ==
    \/ length < 0
    \/ length > 0 /\ (name = <<>> \/ offset < 0 \/ length > Len(container) - offset)
ReadAt(container, offset, length) ==
    IF length = 0 THEN <<>> ELSE SubSeq(container, offset + 1, offset + length)

\* A mutant of FirstError: the error sent last.
LastError(channel) == IF channel = <<>> THEN "" ELSE channel[Len(channel)]

\* Extract returns the first error of the channel, or none (lines 400-405).
FirstError(channel) == IF channel = <<>> THEN "" ELSE Head(channel)

(***************************************************************************)
(* Index files and directories of the model.                               *)
(***************************************************************************)
\* The 540-byte header of an S5 index and the 300-byte header of an S4
\* index: the signature, the title "T", and 60 bytes after them.
S5HeaderBytes(signature) ==
    encodeUTF16StringPadded(signature, 16) \o encodeUTF16StringPadded(<<84>>, 464)
      \o Repeat(7, 60)
S4HeaderBytes(signature) ==
    signature \o <<0, 84>> \o Repeat(0, 240 - Len(signature) - 2) \o Repeat(7, 60)

\* The metadata of a compressed index.
S5Metadata(archives, entries) ==
    PutU32(Len(archives))
      \o Concat([i \in 1..Len(archives) |->
                   encodeUTF16StringPadded(archives[i], S5ArchiveEntrySize)])
      \o PutU32(Len(entries))
      \o Concat([i \in 1..Len(entries) |-> encodeFileEntry(entries[i])])
S4Metadata(archives, entries) ==
    PutU32(Len(archives))
      \o Concat([i \in 1..Len(archives) |->
                   archives[i] \o Repeat(0, S4ArchiveEntrySize - Len(archives[i]))])
      \o PutU32(Len(entries))
      \o Concat([i \in 1..Len(entries) |->
                   entries[i].Filename \o Repeat(0, 64 - Len(entries[i].Filename))
                     \o PutU32(entries[i].ArchiveIndex) \o PutU32(entries[i].FileIndex)
                     \o PutU32(entries[i].Offset) \o PutU32(entries[i].Length)])

\* The descriptor and the compressed metadata, every byte stored as a
\* literal: a flag byte 0xFF before each 8 bytes.
Literals(metadata) ==
    [i \in 1..(Len(metadata) + (Len(metadata) + 7) \div 8) |->
       IF (i - 1) % 9 = 0 THEN 255 ELSE metadata[i - 1 - (i - 1) \div 9]]
Described(metadata) ==
    PutU32(Len(metadata)) \o PutU32(Len(metadata))
      \o PutU32(Len(metadata) + (Len(metadata) + 7) \div 8) \o Literals(metadata)

\* The index file of the given signature over the archives and entries.
IndexFile(signature, archives, entries) ==
    IF signature = <<83, 53, 73, 78>>
    THEN Take(S5HeaderBytes(signature), 512)
           \o encodeUTF16StringPadded(archives[1], 512) \o PutU32(Len(entries))
           \o Concat([i \in 1..Len(entries) |->
                        encodeUTF16StringPadded(entries[i].Filename, 136)
                          \o PutU32(entries[i].Offset) \o PutU32(entries[i].Length)])
    ELSE (IF signature[2] = 52 THEN S4HeaderBytes(signature)
          ELSE IF signature[3] = 65 THEN Take(S5HeaderBytes(signature), 532)
          ELSE S5HeaderBytes(signature))
           \o Described(IF signature[2] = 52 THEN S4Metadata(archives, entries)
                        ELSE S5Metadata(archives, entries))

S5IC == <<83, 53, 73, 67>>
S5AC == <<83, 53, 65, 67>>
S5IN == <<83, 53, 73, 78>>
S4IC == <<83, 52, 73, 67>>
S4AC == <<83, 52, 65, 67>>
\* Magics no format has: "X5IC", which DetectFormat rejects, and "S5IX",
\* an S5 magic whose fourth character is not C.
X5IC == <<88, 53, 73, 67>>
S5IX == <<83, 53, 73, 88>>
\* Container names "A.ALF", "B.ALF", "A.BIN", "C.ALF"; file names "x", "n",
\* "m", "q", "s/y", and a name of LongNameLen letters.
LongNameLen == 65
AALF == <<65, 46, 65, 76, 70>>
BALF == <<66, 46, 65, 76, 70>>
ABIN == <<65, 46, 66, 73, 78>>
CALF == <<67, 46, 65, 76, 70>>
LongName == [i \in 1..LongNameLen |-> 97 + (i % 3)]
File(name, data) == [name |-> name, data |-> data]

\* One container with two files, one of them in a directory.
OneArchive == <<AALF>>
OneEntries == <<FileEntry(<<120>>, 0, 0, 0, 2), FileEntry(<<115, 47, 121>>, 0, 1, 2, 3)>>
OneContainers == AALF :> <<1, 2, 3, 4, 5>>
\* Two containers; an entry past the end of the second container and an
\* entry of an archive index no container has.
TwoArchives == <<AALF, BALF>>
TwoEntries ==
    <<FileEntry(<<120>>, 0, 0, 0, 2), FileEntry(<<110>>, 1, 0, 0, 2),
      FileEntry(<<109>>, 1, 1, 3, 9), FileEntry(<<113>>, 7, 0, 0, 1),
      FileEntry(<<115, 47, 121>>, 0, 1, 2, 3)>>
TwoContainers == (AALF :> <<1, 2, 3, 4, 5>>) @@ (BALF :> <<6, 7, 8>>)

\* A job: the index and the containers next to it, the arguments of
\* AddArchive, the filter of Extract.
Job(signature, archives, entries, containers, ArchiveName, files, Filter) ==
    [signature |-> signature, archives |-> archives, entries |-> entries,
     index |-> IndexFile(signature, archives, entries), containers |-> containers,
     ArchiveName |-> ArchiveName, files |-> files, Filter |-> Filter]
JobMenu ==
    {<<S5IC, 1, BALF, <<File(<<110>>, <<8>>), File(<<120>>, <<9, 9>>)>>, <<>>>>,
     <<S5IC, 1, BALF, <<File(<<110>>, <<8>>), File(<<120>>, <<9, 9>>)>>, <<88>>>>,
     <<S5IC, 1, ABIN, <<File(<<120>>, <<9, 9>>)>>, <<>>>>,
     <<S5IC, 1, AALF, <<File(<<120>>, <<9, 9, 9, 9, 9, 9>>)>>, <<>>>>,
     <<S5IC, 1, BALF, <<File(LongName, <<8>>)>>, <<>>>>,
     <<S5IC, 1, BALF, <<>>, <<>>>>,
     <<S5IC, 1, <<>>, <<File(<<110>>, <<8>>)>>, <<>>>>,
     <<S5AC, 1, BALF, <<File(<<110>>, <<8>>)>>, <<>>>>,
     <<S5IN, 1, BALF, <<File(<<110>>, <<8>>)>>, <<>>>>,
     <<S4IC, 1, BALF, <<File(<<110>>, <<8>>)>>, <<>>>>,
     <<X5IC, 1, BALF, <<File(<<110>>, <<8>>)>>, <<>>>>,
     <<S5IX, 1, BALF, <<File(<<110>>, <<8>>)>>, <<>>>>,
     <<S5IC, 2, CALF, <<File(<<110>>, <<8>>)>>, <<>>>>,
     <<S4IC, 2, CALF, <<File(<<110>>, <<8>>)>>, <<>>>>}
\* An S5IC index whose metadata stops after n bytes: before the archive
\* count is complete, inside the archive name, inside the entry count,
\* inside an entry; and an index with no metadata.
CutMenu == {0, 2, 104, 518, 600}
TruncatedIndex(n) ==
    S5HeaderBytes(S5IC) \o Described(Take(S5Metadata(OneArchive, OneEntries), n))
TruncatedJobs ==
    {[Job(S5IC, OneArchive, OneEntries, OneContainers, BALF, <<File(<<110>>, <<8>>)>>, <<>>)
        EXCEPT !.index = TruncatedIndex(n)] : n \in CutMenu}
\* An index that lists A.ALF and B.ALF next to only one of them.
MissingJobs ==
    {Job(signature, TwoArchives, TwoEntries, containers, CALF, <<>>, <<>>) :
        signature \in {S5IC, S4IC}, containers \in {OneContainers, BALF :> <<6, 7, 8>>}}
\* An index whose metadata is stored as it is, the three lengths of the
\* descriptor equal.
RawIndex(signature, archives, entries) ==
    LET Stored(metadata) ==
          PutU32(Len(metadata)) \o PutU32(Len(metadata)) \o PutU32(Len(metadata)) \o metadata
    IN IF signature[2] = 52
       THEN S4HeaderBytes(signature) \o Stored(S4Metadata(archives, entries))
       ELSE (IF signature[3] = 65 THEN Take(S5HeaderBytes(signature), 532)
             ELSE S5HeaderBytes(signature)) \o Stored(S5Metadata(archives, entries))
RawJobs ==
    {[Job(signature, OneArchive, OneEntries, OneContainers, BALF, <<>>, <<>>)
        EXCEPT !.index = RawIndex(signature, OneArchive, OneEntries)] :
       signature \in {S5IC, S5AC, S4IC}}
\* An index all of whose entries fail to extract: one reaches past the end
\* of its container, the other has an archive index no container has.
AllFailJobs ==
    {Job(signature, TwoArchives,
         <<FileEntry(<<109>>, 1, 0, 3, 9), FileEntry(<<113>>, 7, 0, 0, 1)>>, TwoContainers,
         CALF, <<>>, <<>>) : signature \in {S5IC, S4IC}}
Jobs ==
    {Job(j[1], IF j[2] = 1 THEN OneArchive ELSE TwoArchives,
         IF j[2] = 1 THEN OneEntries ELSE TwoEntries,
         IF j[2] = 1 THEN OneContainers ELSE TwoContainers, j[3], j[4], j[5]) : j \in JobMenu}
      \cup TruncatedJobs \cup MissingJobs \cup RawJobs \cup AllFailJobs

(***************************************************************************)
(* SpecAlf: AddArchive on the index or not, Open, then Extract with its    *)
(* goroutines interleaved.                                                 *)
(***************************************************************************)
InitAlf ==
    /\ job \in Jobs
    /\ alfPc = "index"
    /\ indexFile = job.index
    /\ alfFiles = job.containers
    /\ added = Idle
    /\ archive = Unparsed("archive not opened")
    /\ workers = <<>> /\ errChan = <<>> /\ reported = <<>> /\ wg = 0
    /\ outFiles = <<>> /\ outDirs = {} /\ wrote = <<>> /\ readBy = <<>>
    /\ extractErr = Idle
    /\ IdleLzss /\ IdleStream /\ IdleCalls /\ IdleBin /\ IdleAgf /\ IdleAsm /\ IdlePack
    /\ IdlePal

\* AddArchive with the output index and the new container written next to
\* the old containers.
AddArchiveCall ==
    /\ alfPc = "index"
    /\ \E r \in {AddArchive(indexFile, job.ArchiveName, job.files, alfFiles)} :
         /\ added' = r.err
         /\ indexFile' = IF r.err = "" THEN r.index ELSE indexFile
         /\ alfFiles' = r.containers
    /\ alfPc' = "added"
    /\ UNCHANGED <<job, archive, workers, errChan, reported, wg, outFiles, outDirs, wrote,
                   readBy, extractErr, notAlf>>

\* Extractor.Open of the index.
OpenIndex ==
    /\ alfPc \in {"index", "added"}
    /\ \E a \in {Open(indexFile, alfFiles)} :
         /\ archive' = a
         /\ alfPc' = IF a.err = "" THEN "opened" ELSE "rejected"
    /\ UNCHANGED <<job, indexFile, alfFiles, added, workers, errChan, reported, wg, outFiles,
                   outDirs, wrote, readBy, extractErr, notAlf>>

\* Extract up to the loop that starts the goroutines: the error of an
\* extractor that was not opened, or a goroutine for each group.
ExtractBegin ==
    /\ alfPc \in {"index", "opened"}
    /\ IF alfPc = "index"
       THEN /\ extractErr' = "archive not opened"
            /\ alfPc' = "refused"
            /\ UNCHANGED <<workers, wg>>
       ELSE /\ \E groups \in {GroupsOf(archive.Entries, job.Filter)} :
                 /\ workers' = [idx \in DOMAIN groups |->
                                  [pc |-> "start", files |-> groups[idx], k |-> 1, err |-> ""]]
                 /\ wg' = Cardinality(DOMAIN groups)
            /\ alfPc' = "extracting"
            /\ UNCHANGED extractErr
    /\ UNCHANGED <<job, indexFile, alfFiles, added, archive, errChan, reported, outFiles,
                   outDirs, wrote, readBy, notAlf>>

\* extractFromArchive up to its loop: the range check and the output
\* directory of the container.
WorkerStart(idx) ==
    /\ alfPc = "extracting"
    /\ workers[idx].pc = "start"
    /\ IF idx < 0 \/ idx >= Len(archive.Sources)
       THEN /\ workers' = [workers EXCEPT ![idx].pc = "send",
                                          ![idx].err = "archive index out of range"]
            /\ UNCHANGED outDirs
       ELSE IF MkdirAllFails(OutDir(archive.Sources[idx + 1]), outFiles)
       THEN /\ workers' = [workers EXCEPT ![idx].pc = "send",
                                          ![idx].err = "failed to create output directory"]
            /\ UNCHANGED outDirs
       ELSE /\ workers' = [workers EXCEPT ![idx].pc = "entries"]
            /\ outDirs' = outDirs \cup DirsTo(OutDir(archive.Sources[idx + 1]))
    /\ UNCHANGED <<job, alfPc, indexFile, alfFiles, added, archive, errChan, reported, wg,
                   outFiles, wrote, readBy, extractErr, notAlf>>

\* One turn of the loop of extractFromArchive: the directory of the file,
\* the read from the handle of the container, the write of the file.
WorkerEntry(idx) ==
    /\ alfPc = "extracting"
    /\ workers[idx].pc = "entries"
    /\ workers[idx].k <= Len(workers[idx].files)
    /\ LET entry == workers[idx].files[workers[idx].k]
           name == archive.Sources[idx + 1]
           outPath == OutPath(name, entry.Filename)
           made == IF Dir(outPath) # OutDir(name) THEN DirsTo(Dir(outPath)) ELSE {}
           Failed(message) == [workers EXCEPT ![idx].pc = "send", ![idx].err = message]
       IN IF made \cap DOMAIN outFiles # {}
          THEN /\ workers' = Failed("failed to create directory")
               /\ UNCHANGED <<outDirs, outFiles, wrote, readBy>>
          ELSE /\ outDirs' = outDirs \cup made
               /\ readBy' = (idx :> ((IF idx \in DOMAIN readBy THEN readBy[idx] ELSE {})
                                       \cup {idx})) @@ readBy
               /\ IF ReadAtFails(name, IF name = <<>> THEN <<>> ELSE alfFiles[name],
                                 entry.Offset, entry.Length)
                  THEN /\ workers' = Failed("failed to read")
                       /\ UNCHANGED <<outFiles, wrote>>
                  ELSE IF outPath \in outDirs \cup made
                  THEN /\ workers' = Failed("failed to write")
                       /\ UNCHANGED <<outFiles, wrote>>
                  ELSE /\ workers' = [workers EXCEPT ![idx].k = @ + 1]
                       /\ outFiles' = (outPath :> ReadAt(alfFiles[name], entry.Offset,
                                                         entry.Length)) @@ outFiles
                       /\ wrote' = (outPath :> ((IF outPath \in DOMAIN wrote
                                                 THEN wrote[outPath] ELSE {}) \cup {idx}))
                                     @@ wrote
    /\ UNCHANGED <<job, alfPc, indexFile, alfFiles, added, archive, errChan, reported, wg,
                   extractErr, notAlf>>

\* A mutant of ChanCapacity: room for one error.
ChanCapacityOne(groups) == 1

\* The capacity of the error channel: make(chan error, len(groups)).
ChanCapacity(groups) == groups

\* The goroutine sends the error of extractFromArchive to the channel; the
\* send waits while the channel is full.
WorkerSend(idx) ==
    /\ alfPc = "extracting"
    /\ workers[idx].pc = "send"
    /\ Len(errChan) < ChanCapacity(Cardinality(DOMAIN workers))
    /\ errChan' = Append(errChan, workers[idx].err)
    /\ reported' = Append(reported, idx)
    /\ workers' = [workers EXCEPT ![idx].pc = "sent"]
    /\ UNCHANGED <<job, alfPc, indexFile, alfFiles, added, archive, wg, outFiles, outDirs,
                   wrote, readBy, extractErr, notAlf>>

\* The goroutine ends: the deferred wg.Done.
WorkerDone(idx) ==
    /\ alfPc = "extracting"
    /\ \/ workers[idx].pc = "sent"
       \/ workers[idx].pc = "entries" /\ workers[idx].k > Len(workers[idx].files)
    /\ workers' = [workers EXCEPT ![idx].pc = "done"]
    /\ wg' = wg - 1
    /\ UNCHANGED <<job, alfPc, indexFile, alfFiles, added, archive, errChan, reported,
                   outFiles, outDirs, wrote, readBy, extractErr, notAlf>>

\* Extract after wg.Wait: the channel is closed and its first error
\* returned.
ExtractReturn ==
    /\ alfPc = "extracting"
    /\ wg = 0
    /\ extractErr' = FirstError(errChan)
    /\ alfPc' = "returned"
    /\ UNCHANGED <<job, indexFile, alfFiles, added, archive, workers, errChan, reported, wg,
                   outFiles, outDirs, wrote, readBy, notAlf>>

NextAlf ==
    \/ AddArchiveCall
    \/ OpenIndex
    \/ ExtractBegin
    \/ \E idx \in DOMAIN workers : WorkerStart(idx)
    \/ \E idx \in DOMAIN workers : WorkerEntry(idx)
    \/ \E idx \in DOMAIN workers : WorkerSend(idx)
    \/ \E idx \in DOMAIN workers : WorkerDone(idx)
    \/ ExtractReturn

SpecAlf == InitAlf /\ [][NextAlf]_vars

\* SpecAlfFair: SpecAlf with the scheduling of the Go runtime: a goroutine
\* that can take a step is not left waiting forever, and neither is Extract
\* once wg.Wait can return.
WorkerStep ==
    \E idx \in DOMAIN workers :
        WorkerStart(idx) \/ WorkerEntry(idx) \/ WorkerSend(idx) \/ WorkerDone(idx)
SpecAlfFair == SpecAlf /\ WF_workers(WorkerStep) /\ WF_alfPc(ExtractReturn)

\* C4 (as stated, refuted): after AddArchive succeeded, Open and an Extract
\* that returned no error, every file of the directory is in the output
\* under the stem of the new container with its bytes, and every entry of
\* the index before the call is in the output with the bytes it had in its
\* container before the call.
AddedArchiveExtracts ==
    (alfPc = "returned" /\ added = "" /\ extractErr = "" /\ job.Filter = <<>>) =>
      /\ \A i \in 1..Len(job.files) :
           /\ OutPath(job.ArchiveName, job.files[i].name) \in DOMAIN outFiles
           /\ outFiles[OutPath(job.ArchiveName, job.files[i].name)] = job.files[i].data
      /\ \A i \in 1..Len(job.entries) :
           LET entry == job.entries[i]
               name == job.archives[entry.ArchiveIndex + 1]
           IN /\ OutPath(name, entry.Filename) \in DOMAIN outFiles
              /\ outFiles[OutPath(name, entry.Filename)]
                   = ReadAt(job.containers[name], entry.Offset, entry.Length)

\* The metadata of the index file, decompressed from the descriptor at
\* 0x21C, and its archive names and entries.
WrittenMetadata ==
    parseMetadata(FormatS5,
                  Decompress(SubSeq(indexFile, 553, 552 + ReadU32(indexFile, 548))), <<>>, FALSE)
AddedIndex == alfPc = "added" /\ added = ""

NotCompressedS5 == job.signature[1] # 83 \/ job.signature[2] # 53 \/ job.signature[4] # 67
Truncated == job.index \in {TruncatedIndex(n) : n \in CutMenu}

\* C13: AddArchive on an index that is not S5-compressed, or whose metadata
\* is truncated, or with a directory that holds no file, returns an error
\* and writes nothing: the index and the container files are as before.
RejectedAddWritesNothing ==
    (alfPc = "added" /\ (NotCompressedS5 \/ Truncated \/ job.files = <<>>)) =>
      /\ added # ""
      /\ indexFile = job.index
      /\ alfFiles = job.containers

\* C13 witness: AddArchive has refused an S4 index with a file to add, and
\* no container has the new name.
RejectedAddWritesNothingWitness ==
    /\ alfPc = "added"
    /\ job.signature = S4IC
    /\ job.files # <<>>
    /\ added = "only S5 format is supported"
    /\ job.ArchiveName \notin DOMAIN alfFiles

\* C15 (as stated, refuted): when Open fails because a container the index
\* lists is absent, the extractor keeps the parsed index: its entries are
\* the entries of the index.
OpenKeepsIndex ==
    (alfPc = "rejected" /\ archive.err = "failed to open archive" /\ indexFile = job.index) =>
        archive.Entries = job.entries

\* The entries a goroutine of Extract has read from its container and
\* written: the turns of the loop of extractFromArchive that went through.
EntriesRead(idx) ==
    IF workers[idx].pc \in {"entries", "send", "sent", "done"}
    THEN Take(workers[idx].files, workers[idx].k - 1) ELSE <<>>
ReadWithinContainer ==
    \A idx \in DOMAIN workers : \A k \in DOMAIN EntriesRead(idx) :
        EntriesRead(idx)[k].Offset + EntriesRead(idx)[k].Length
            <= Len(alfFiles[archive.Sources[idx + 1]])

\* C16 (as stated, refuted): after a successful Open every entry of the
\* archive has an archive index below the number of containers of the
\* index, and every entry that was read lies within its container:
\* offset + length is at most the size of the container.
EntriesWithinContainers ==
    (alfPc \in {"opened", "extracting", "returned"}) =>
        /\ \A i \in DOMAIN archive.Entries :
               archive.Entries[i].ArchiveIndex < Len(archive.Sources)
        /\ ReadWithinContainer

\* The job's index is its metadata behind a descriptor, compressed or
\* stored as it is, next to every container it names, and it is the index
\* that was opened.
DescribedJob ==
    /\ job.signature \in {S5IC, S5AC, S4IC}
    /\ job.index \in {IndexFile(job.signature, job.archives, job.entries),
                      RawIndex(job.signature, job.archives, job.entries)}
    /\ \A i \in 1..Len(job.archives) : job.archives[i] \in DOMAIN job.containers
    /\ indexFile = job.index

\* C25 (as stated, refuted): Open reads the metadata of an S4 or S5 index
\* as its descriptor says: decompressed when the stored length differs
\* from the original length, as it is when they are equal; either way it
\* parses to the containers and the entries of the index.
DescriptorDecides ==
    (alfPc \in {"opened", "rejected"} /\ DescribedJob) =>
        /\ archive.err = ""
        /\ archive.Sources = job.archives
        /\ archive.Entries = job.entries

\* The archive indexes of the entries Extract keeps.
WorkerIds ==
    {Selected(archive.Entries, job.Filter)[i].ArchiveIndex :
       i \in 1..Len(Selected(archive.Entries, job.Filter))}
Failing == {idx \in DOMAIN workers : workers[idx].err # ""}

\* C5: Extract runs one goroutine per archive index of its entries, each
\* with the entries of that index; it returns when every goroutine has
\* ended; it returns no error when no goroutine failed and else the error
\* sent first; a goroutine that did not fail has written all its files.
ExtractJoinsWorkers ==
    /\ alfPc \in {"extracting", "returned"} =>
         /\ DOMAIN workers = WorkerIds
         /\ \A idx \in DOMAIN workers :
              workers[idx].files
                = SelectSeq(Selected(archive.Entries, job.Filter),
                            LAMBDA e : e.ArchiveIndex = idx)
         /\ wg = Cardinality({idx \in DOMAIN workers : workers[idx].pc # "done"})
    /\ alfPc = "returned" =>
         /\ \A idx \in DOMAIN workers : workers[idx].pc = "done"
         /\ IF Failing = {} THEN extractErr = ""
            ELSE /\ reported # <<>>
                 /\ extractErr # ""
                 /\ extractErr = workers[reported[1]].err
                 /\ {reported[i] : i \in 1..Len(reported)} = Failing
         /\ \A idx \in DOMAIN workers \ Failing :
              \A i \in 1..Len(workers[idx].files) :
                LET outPath == OutPath(archive.Sources[idx + 1], workers[idx].files[i].Filename)
                IN outPath \in DOMAIN wrote /\ idx \in wrote[outPath]

\* No goroutine has sent twice, the channel holds no more than its
\* capacity, a goroutine with an error to send finds room in the channel,
\* and Extract has gone past wg.Wait (and closed the channel) only when
\* every goroutine has ended.
SendsFitChannel ==
    alfPc \in {"extracting", "returned"} =>
        /\ \A i, k \in 1..Len(reported) : reported[i] = reported[k] => i = k
        /\ Len(errChan) = Len(reported)
        /\ Len(errChan) <= ChanCapacity(Cardinality(DOMAIN workers))
        /\ \A idx \in DOMAIN workers :
             workers[idx].pc = "send" => Len(errChan) < ChanCapacity(Cardinality(DOMAIN workers))
        /\ alfPc = "returned" => \A idx \in DOMAIN workers : workers[idx].pc = "done"

\* C30: an Extract that has started its goroutines returns, however many
\* of them fail: each goroutine sends at most one error, the channel has
\* room for one error of each, so no send waits, every goroutine ends, and
\* the channel is closed after the last of them has ended.
ExtractAlwaysReturns ==
    /\ []SendsFitChannel
    /\ (alfPc = "extracting") ~> (alfPc = "returned")

\* C30 witness: Extract returned after every goroutine, more than one,
\* had sent an error, the channel being full.
ExtractAlwaysReturnsWitness ==
    /\ alfPc = "returned"
    /\ Cardinality(DOMAIN workers) >= 2
    /\ Len(errChan) = Cardinality(DOMAIN workers)

\* C5 witness: Extract returned the error of one of two goroutines that
\* failed differently, next to a goroutine that wrote two files.
ExtractJoinsWorkersWitness ==
    /\ alfPc = "returned"
    /\ extractErr # ""
    /\ \E a, b \in Failing : workers[a].err # workers[b].err
    /\ \E idx \in DOMAIN workers \ Failing : Len(workers[idx].files) >= 2

\* C6 (as stated, refuted): no output path is written by two goroutines,
\* and no handle of a container is read by two goroutines.
WorkersShareNothing ==
    /\ \A outPath \in DOMAIN wrote : Cardinality(wrote[outPath]) <= 1
    /\ \A handle \in DOMAIN readBy : Cardinality(readBy[handle]) <= 1

(***************************************************************************)
(* Pack (the packer of extract.go): LoadOriginal, then the containers      *)
(* rebuilt one file at a time, then the index.  The input directory is a   *)
(* function from the paths of its files to their bytes; the output         *)
(* directory is not the directory of the original.                         *)
(***************************************************************************)
InputDir == <<105>>
PackPath(name, filename) ==
    PathJoin(PathJoin(InputDir, TrimSuffix(name, Ext(name))), filename)
\* os.Stat succeeds on a file and on a directory of the input directory.
StatOk(inputFiles, path) ==
    \/ path \in DOMAIN inputFiles
    \/ \E f \in DOMAIN inputFiles : Len(f) > Len(path) /\ Take(f, Len(path) + 1) = path \o <<47>>

\* The packedFile of an entry (Pack, the loop over original.Entries): the
\* file of the input directory when os.Stat finds one, else the bytes of
\* the original.
PackedFile(entry, sources, inputFiles) ==
    LET filePath == PackPath(sources[entry.ArchiveIndex + 1], entry.Filename)
    IN IF StatOk(inputFiles, filePath)
       THEN [name |-> entry.Filename, arcIndex |-> entry.ArchiveIndex,
             fileIndex |-> entry.FileIndex, path |-> filePath,
             size |-> IF filePath \in DOMAIN inputFiles THEN Len(inputFiles[filePath]) ELSE 0,
             modified |-> TRUE, origOffset |-> 0, origLength |-> 0]
       ELSE [name |-> entry.Filename, arcIndex |-> entry.ArchiveIndex,
             fileIndex |-> entry.FileIndex, path |-> <<>>, size |-> entry.Length,
             modified |-> FALSE, origOffset |-> entry.Offset, origLength |-> entry.Length]

\* sort.Slice on pairs <<key, item>>, a key being <<archive index, file
\* index>>.  sort.Slice leaves the order of equal keys open; the insertion
\* sort here keeps it, and no index below has two entries with one key.
KeyLess(a, b) == a[1] < b[1] \/ (a[1] = b[1] /\ a[2] < b[2])
RECURSIVE InsertPair(_, _)
InsertPair(pair, sorted) ==
    IF sorted = <<>> THEN <<pair>>
    ELSE IF ~KeyLess(sorted[1][1], pair[1]) THEN <<pair>> \o sorted
    ELSE <<sorted[1]>> \o InsertPair(pair, Tail(sorted))
RECURSIVE SortPairs(_)
SortPairs(pairs) ==
    IF pairs = <<>> THEN <<>>
    ELSE InsertPair(pairs[1], SortPairs(Tail(pairs)))
\* A sort that leaves the files as they are.
Unsorted(files) == files
\* The files of a container sorted by file index (Pack, lines 582-586).
SortFiles(files) ==
    LET sorted == SortPairs([i \in 1..Len(files) |-> <<<<0, files[i].fileIndex>>, files[i]>>])
    IN [i \in 1..Len(files) |-> sorted[i][2]]
\* newEntries sorted by archive index, then file index (Pack, lines 668-674).
SortEntries(entries) ==
    LET sorted == SortPairs([i \in 1..Len(entries) |->
                               <<<<entries[i].ArchiveIndex, entries[i].FileIndex>>, entries[i]>>])
    IN [i \in 1..Len(entries) |-> sorted[i][2]]

\* filesByArchive after the sort (Pack, lines 538-587): a run-time panic
\* when an entry has an archive index no source has.  The first loop only
\* makes empty slices, which the loop over the sources skips like a missing
\* key.
FilesByArchive(original, inputFiles) ==
    LET entries == original.Entries
        Of(arcIdx) ==
          LET chosen == SelectSeq(entries, LAMBDA e : e.ArchiveIndex = arcIdx)
          IN [i \in 1..Len(chosen) |-> PackedFile(chosen[i], original.Sources, inputFiles)]
    IN IF \E i \in 1..Len(entries) :
            entries[i].ArchiveIndex < 0 \/ entries[i].ArchiveIndex >= Len(original.Sources)
       THEN [err |-> "panic", files |-> <<>>]
       ELSE [err |-> "",
             files |-> [arcIdx \in {entries[i].ArchiveIndex : i \in 1..Len(entries)} |->
                          SortFiles(Of(arcIdx))]]

\* The bytes Pack writes for a file (lines 619-651): the file of the input
\* directory, or the bytes ReadAt reads from the original container.
PackedBytes(pf, name, orig, inputFiles) ==
    IF pf.modified
    THEN IF pf.path \in DOMAIN inputFiles THEN [err |-> "", data |-> inputFiles[pf.path]]
         ELSE [err |-> "failed to read", data |-> <<>>]
    ELSE IF ReadAtFails(name, orig, pf.origOffset, pf.origLength)
    THEN [err |-> "failed to read from original", data |-> <<>>]
    ELSE [err |-> "", data |-> ReadAt(orig, pf.origOffset, pf.origLength)]

\* copy into a zeroed slot of the metadata.  A name read from an index is
\* never longer than its slot.
Slot(bytes, size) == Take(bytes \o Repeat(0, size), size)
\* EncodeUTF16LE of a name of the Basic Multilingual Plane.
EncodeUTF16LE(s) == Concat([i \in 1..Len(s) |-> <<s[i] % 256, (s[i] \div 256) % 256>>])
FourFields(entry) ==
    PutU32(entry.ArchiveIndex) \o PutU32(entry.FileIndex) \o PutU32(entry.Offset)
      \o PutU32(entry.Length)
buildS5Metadata(sources, entries) ==
    PutU32(Len(sources))
      \o Concat([i \in 1..Len(sources) |-> Slot(EncodeUTF16LE(sources[i]), S5ArchiveEntrySize)])
      \o PutU32(Len(entries))
      \o Concat([i \in 1..Len(entries) |->
                   Slot(EncodeUTF16LE(entries[i].Filename), 128) \o FourFields(entries[i])])
buildS4Metadata(sources, entries) ==
    PutU32(Len(sources))
      \o Concat([i \in 1..Len(sources) |-> Slot(sources[i], S4ArchiveEntrySize)])
      \o PutU32(Len(entries))
      \o Concat([i \in 1..Len(entries) |->
                   Slot(entries[i].Filename, 64) \o FourFields(entries[i])])
\* buildS5IndexFile and buildS4IndexFile: the header of the original, the
\* three lengths, the compressed metadata.
buildIndexFile(header, metadata, compressed) ==
    header.Raw \o PutU32(Len(metadata)) \o PutU32(Len(metadata)) \o PutU32(Len(compressed))
      \o compressed
PackMetadata(original, entries) ==
    IF original.Header.Version = FormatS5 THEN buildS5Metadata(original.Sources, entries)
    ELSE buildS4Metadata(original.Sources, entries)
\* writeIndexFile on the metadata it built.
writeIndexFile(original, metadata) ==
    buildIndexFile(original.Header, metadata, Compress(metadata))

(***************************************************************************)
(* SpecPack: LoadOriginal, Pack.  The indexes list A.ALF and B.ALF with    *)
(* entries that are not in the order of their file indexes; the input      *)
(* directory holds replacements for some of them.                          *)
(***************************************************************************)
PackEntries ==
    <<FileEntry(<<115, 47, 121>>, 0, 1, 2, 3), FileEntry(<<110>>, 1, 0, 0, 2),
      FileEntry(<<120>>, 0, 0, 0, 2), FileEntry(<<109>>, 1, 1, 2, 1)>>
Replacements ==
    (PackPath(AALF, <<120>>) :> <<9, 9, 9>>) @@ (PackPath(AALF, <<115, 47, 121>>) :> <<4>>)
      @@ (PackPath(BALF, <<110>>) :> <<>>)
PackJob(signature, archives, entries, containers, inputFiles) ==
    [signature |-> signature, archives |-> archives, entries |-> entries,
     index |-> IndexFile(signature, archives, entries), containers |-> containers,
     inputFiles |-> inputFiles]
\* Indexes of the other magics Open accepts, over one container: an S5
\* append index (descriptor at 0x214), an S4 append index (descriptor at
\* 0x10C) and an S5 index that is not compressed.
OtherMagicJobs ==
    {PackJob(S5AC, OneArchive, OneEntries, OneContainers, <<>>),
     PackJob(S5IN, OneArchive, OneEntries, OneContainers, <<>>),
     [PackJob(S4AC, OneArchive, OneEntries, OneContainers, <<>>)
        EXCEPT !.index = Take(S4HeaderBytes(S4AC), 268)
                           \o Described(S4Metadata(OneArchive, OneEntries))]}
PackJobs ==
    {PackJob(S4IC, TwoArchives, PackEntries, TwoContainers, [f \in chosen |-> Replacements[f]]) :
        chosen \in SUBSET DOMAIN Replacements}
      \cup {PackJob(S5IC, TwoArchives, PackEntries, TwoContainers,
                    [f \in chosen |-> Replacements[f]]) :
              chosen \in {c \in SUBSET DOMAIN Replacements : PackPath(AALF, <<120>>) \in c}}
      \cup {\* an entry of an archive index no source has, and an entry past the end
            PackJob(S5IC, TwoArchives, TwoEntries, TwoContainers, <<>>),
            PackJob(S4IC, TwoArchives,
                    <<FileEntry(<<120>>, 0, 0, 0, 2), FileEntry(<<109>>, 1, 0, 3, 9)>>,
                    TwoContainers, <<>>),
            \* an entry named like a directory of the input directory
            PackJob(S4IC, OneArchive, <<FileEntry(<<115>>, 0, 0, 0, 1)>>, OneContainers,
                    PackPath(AALF, <<115, 47, 121>>) :> <<4>>),
            \* an index that lists a container that is not there
            PackJob(S4IC, TwoArchives, PackEntries, OneContainers, <<>>)}
      \cup OtherMagicJobs

InitPack ==
    /\ pkJob \in PackJobs
    /\ pkPc = "index"
    /\ pkOriginal = Idle /\ pkFiles = <<>> /\ pkArc = 0 /\ pkNext = 0 /\ pkOffset = 0
    /\ pkEntries = <<>> /\ pkOut = <<>> /\ pkIndex = <<>> /\ pkErr = Idle
    /\ IdleLzss /\ IdleStream /\ IdleCalls /\ IdleBin /\ IdleAgf /\ IdleAlf /\ IdleAsm
    /\ IdlePal

\* Packer.LoadOriginal: Open of the index.
LoadOriginal ==
    /\ pkPc = "index"
    /\ \E a \in {Open(pkJob.index, pkJob.containers)} :
         /\ pkOriginal' = a
         /\ pkPc' = IF a.err = "" THEN "loaded" ELSE "rejected"
         /\ pkErr' = IF a.err = "" THEN pkErr ELSE a.err
    /\ UNCHANGED <<pkJob, pkFiles, pkArc, pkNext, pkOffset, pkEntries, pkOut, pkIndex, notPack>>

\* Pack up to the loop over the sources.
PackCollect ==
    /\ pkPc = "loaded"
    /\ \E c \in {FilesByArchive(pkOriginal, pkJob.inputFiles)} :
         /\ pkFiles' = c.files
         /\ pkPc' = IF c.err = "" THEN "packing" ELSE "returned"
         /\ pkErr' = IF c.err = "" THEN pkErr ELSE c.err
    /\ UNCHANGED <<pkJob, pkOriginal, pkArc, pkNext, pkOffset, pkEntries, pkOut, pkIndex, notPack>>

\* The loop over the sources at a source: a source with no file is
\* skipped; else the original is opened and the output file created.
PackCreate ==
    /\ pkPc = "packing" /\ pkNext = 0 /\ pkArc < Len(pkOriginal.Sources)
    /\ IF pkArc \notin DOMAIN pkFiles \/ pkFiles[pkArc] = <<>>
       THEN /\ pkArc' = pkArc + 1
            /\ UNCHANGED <<pkPc, pkNext, pkOffset, pkOut, pkErr>>
       ELSE IF pkOriginal.Sources[pkArc + 1] = <<>>
       THEN /\ pkPc' = "returned"
            /\ pkErr' = "failed to create output archive"
            /\ UNCHANGED <<pkArc, pkNext, pkOffset, pkOut>>
       ELSE /\ pkOut' = (pkOriginal.Sources[pkArc + 1] :> <<>>) @@ pkOut
            /\ pkNext' = 1
            /\ pkOffset' = 0
            /\ UNCHANGED <<pkPc, pkArc, pkErr>>
    /\ UNCHANGED <<pkJob, pkOriginal, pkFiles, pkEntries, pkIndex, notPack>>

\* One file of the container: its bytes written and its entry appended,
\* or the error of the read.  After the last file the loop goes to the
\* next source.
PackWrite ==
    /\ pkPc = "packing" /\ pkNext > 0
    /\ LET name == pkOriginal.Sources[pkArc + 1]
           pf == pkFiles[pkArc][pkNext]
       IN \E r \in {PackedBytes(pf, name, pkJob.containers[name], pkJob.inputFiles)} :
            IF r.err # ""
            THEN /\ pkErr' = r.err
                 /\ pkPc' = "returned"
                 /\ UNCHANGED <<pkArc, pkNext, pkOffset, pkEntries, pkOut>>
            ELSE /\ pkOut' = [pkOut EXCEPT ![name] = @ \o r.data]
                 /\ pkEntries' = Append(pkEntries,
                                        FileEntry(pf.name, pf.arcIndex, pf.fileIndex, pkOffset,
                                                  pf.size))
                 /\ pkOffset' = pkOffset + pf.size
                 /\ pkNext' = IF pkNext = Len(pkFiles[pkArc]) THEN 0 ELSE pkNext + 1
                 /\ pkArc' = IF pkNext = Len(pkFiles[pkArc]) THEN pkArc + 1 ELSE pkArc
                 /\ UNCHANGED <<pkPc, pkErr>>
    /\ UNCHANGED <<pkJob, pkOriginal, pkFiles, pkIndex, notPack>>

\* After the last source: newEntries sorted, writeIndexFile.
PackIndex ==
    /\ pkPc = "packing" /\ pkNext = 0 /\ pkArc = Len(pkOriginal.Sources)
    /\ \E sorted \in {SortEntries(pkEntries)} :
         \E metadata \in {PackMetadata(pkOriginal, sorted)} :
            /\ pkEntries' = sorted
            /\ pkIndex' = writeIndexFile(pkOriginal, metadata)
    /\ pkPc' = "returned"
    /\ pkErr' = ""
    /\ UNCHANGED <<pkJob, pkOriginal, pkFiles, pkArc, pkNext, pkOffset, pkOut, notPack>>

NextPack == LoadOriginal \/ PackCollect \/ PackCreate \/ PackWrite \/ PackIndex

SpecPack == InitPack /\ [][NextPack]_vars

\* The metadata of the written index, decompressed from the descriptor
\* after the header, and what it lists.
PackedMetadata ==
    LET headerLen == IF pkOriginal.Header.Version = FormatS5 THEN S5HeaderSize ELSE S4HeaderSize
    IN parseMetadata(pkOriginal.Header.Version,
                     Decompress(SubSeq(pkIndex, headerLen + 13,
                                       headerLen + 12 + ReadU32(pkIndex, headerLen + 8))),
                     <<>>, FALSE)
Packed == pkPc = "returned" /\ pkErr = ""
\* The bytes an entry of the source index has after Pack: the file of the
\* input directory under the stem of its container, or its bytes in the
\* original container.
ExpectedBytes(entry) ==
    LET name == pkJob.archives[entry.ArchiveIndex + 1]
    IN IF PackPath(name, entry.Filename) \in DOMAIN pkJob.inputFiles
       THEN pkJob.inputFiles[PackPath(name, entry.Filename)]
       ELSE ReadAt(pkJob.containers[name], entry.Offset, entry.Length)
\* C28 (as stated, refuted): the index Pack wrote, next to the containers
\* it wrote, is accepted by Open and parses to the container names of the
\* original and to the entries Pack computed.
PackedIndexOpens ==
    Packed =>
      \E reopened \in {Open(pkIndex, pkOut)} :
         /\ reopened.err = ""
         /\ reopened.Sources = pkOriginal.Sources
         /\ reopened.Entries = pkEntries

\* The sum of the lengths of the entries of a container.
RECURSIVE SumLengths(_, _)
SumLengths(entries, arcIdx) ==
    IF entries = <<>> THEN 0
    ELSE (IF entries[1].ArchiveIndex = arcIdx THEN entries[1].Length ELSE 0)
           + SumLengths(Tail(entries), arcIdx)

====
